---- MODULE Spec2Model ----
(***************************************************************************)
(* StockWise backend (src/index.js): the stock-metrics retrieval-and-cache *)
(* path (getStockMetrics, stockCache), the bearer-token gate               *)
(* (authenticateToken) and the two routes that use them                    *)
(* (GET /stock/:symbol, GET /analyze/:symbol).                             *)
(*                                                                         *)
(* Conventions.                                                            *)
(*  - A JavaScript value is a tagged record (ty = "undefined", "null",     *)
(*    "number", "nan", "string", "boolean", "object", "array").            *)
(*  - A number is a double.  It is named by the shortest decimal numeral   *)
(*    that reads back as it, the one JavaScript prints: an integer count   *)
(*    of hundredths when that numeral is one below 10^7 (42 is 4200, 0.05  *)
(*    is 5), else sign, digits and a power of ten                          *)
(*    (0.30000000000000004); or it is an infinity.  Numerals are rounded   *)
(*    to the nearest double and arithmetic rounds its result.              *)
(*  - A string, and the text of a model reply, is a tuple of UTF-16 code   *)
(*    units: one-character strings for printable ASCII and \t \n \r \f,    *)
(*    a name for the grave accent, and for any other unit its code written *)
(*    as ToString(<<code>>), "<<223>>" for sharp s.                        *)
(*  - Time is Date.now() in milliseconds, counted from the first instant   *)
(*    the model looks at.                                                  *)
(***************************************************************************)
EXTENDS Integers, Sequences, FiniteSets, TLC

(***************************************************************************)
(* JavaScript values                                                       *)
(***************************************************************************)
Undefined == [ty |-> "undefined"]
Null == [ty |-> "null"]
NaN == [ty |-> "nan"]
Num(n) == [ty |-> "number", n |-> n]
Str(s) == [ty |-> "string", s |-> s]
Bool(b) == [ty |-> "boolean", b |-> b]
Obj(p) == [ty |-> "object", props |-> p]
Arr(e) == [ty |-> "array", elems |-> e]

NoProps == [k \in {} |-> Undefined]

\* ToBoolean: what `x ? a : b`, `x || y` and `!x` look at.
Truthy(v) ==
  CASE v.ty = "undefined" -> FALSE
    [] v.ty = "null" -> FALSE
    [] v.ty = "nan" -> FALSE
    [] v.ty = "number" -> IF "n" \in DOMAIN v THEN v.n # 0 ELSE TRUE
    [] v.ty = "string" -> Len(v.s) > 0
    [] v.ty = "boolean" -> v.b
    [] OTHER -> TRUE

\* typeof v: NaN is a number, null and arrays are objects.
TypeOf(v) ==
  CASE v.ty \in {"number", "nan"} -> "number"
    [] v.ty \in {"null", "object", "array"} -> "object"
    [] OTHER -> v.ty

\* a || b
Or(a, b) == IF Truthy(a) THEN a ELSE b

\* The names of the properties getStockMetrics reads, as strings.
PropertyKey ==
  [stockName |-> <<"s", "t", "o", "c", "k", "N", "a", "m", "e">>,
   name |-> <<"n", "a", "m", "e">>,
   symbol |-> <<"s", "y", "m", "b", "o", "l">>,
   currentPrice |-> <<"c", "u", "r", "r", "e", "n", "t", "P", "r", "i", "c", "e">>,
   dayHigh |-> <<"d", "a", "y", "H", "i", "g", "h">>,
   dayLow |-> <<"d", "a", "y", "L", "o", "w">>,
   peRatio |-> <<"p", "e", "R", "a", "t", "i", "o">>,
   roe |-> <<"r", "o", "e">>,
   debtToEquity |-> <<"d", "e", "b", "t", "T", "o", "E", "q", "u", "i", "t", "y">>,
   profitMargins |-> <<"p", "r", "o", "f", "i", "t", "M", "a", "r", "g", "i", "n", "s">>,
   revenueGrowth |-> <<"r", "e", "v", "e", "n", "u", "e", "G", "r", "o", "w", "t", "h">>]

\* parsed.k : an own property of an object, undefined otherwise (an array has
\* none of the record's keys).
Get(v, k) ==
  IF v.ty = "object" /\ PropertyKey[k] \in DOMAIN v.props THEN v.props[PropertyKey[k]]
  ELSE Undefined

\* The grave accent, U+0060, written by name.
GRAVE == "<grave>"
\* Printable ASCII, U+0020 to U+007E, in code order.
Ascii ==
  <<" ", "!", "\"", "#", "$", "%", "&", "'", "(", ")", "*", "+", ",", "-", ".", "/",
    "0", "1", "2", "3", "4", "5", "6", "7", "8", "9", ":", ";", "<", "=", ">", "?",
    "@", "A", "B", "C", "D", "E", "F", "G", "H", "I", "J", "K", "L", "M", "N", "O",
    "P", "Q", "R", "S", "T", "U", "V", "W", "X", "Y", "Z", "[", "\\", "]", "^", "_",
    GRAVE, "a", "b", "c", "d", "e", "f", "g", "h", "i", "j", "k", "l", "m", "n", "o",
    "p", "q", "r", "s", "t", "u", "v", "w", "x", "y", "z", "{", "|", "}", "~">>
\* A UTF-16 code unit outside printable ASCII other than \t \n \r \f, named
\* by its code: "<<223>>" is U+00DF.
Unit(code) == ToString(<<code>>)
BS == Unit(8)
VT == Unit(11)
NBSP == Unit(160)

\* The character of a UTF-16 code unit.
CharOfCode(code) ==
  CASE code = 9 -> "\t"
    [] code = 10 -> "\n"
    [] code = 12 -> "\f"
    [] code = 13 -> "\r"
    [] code >= 32 /\ code < 127 -> Ascii[code - 31]
    [] OTHER -> Unit(code)

\* White space for String.prototype.trim and for Number(string): WhiteSpace
\* and LineTerminator of the language.
JsWhiteSpace ==
  {" ", "\t", "\n", "\r", "\f"}
    \cup {Unit(code) : code \in {11, 160, 5760, 8232, 8233, 8239, 8287, 12288, 65279}}
    \cup {Unit(code) : code \in 8192..8202}
\* White space for JSON.parse.
JsonWhiteSpace == {" ", "\t", "\n", "\r"}
\* The characters a JSON string may not hold unescaped: U+0000 to U+001F.
JsonControl == {CharOfCode(code) : code \in 0..31}

Digits == <<"0", "1", "2", "3", "4", "5", "6", "7", "8", "9">>
IsDigit(c) == \E d \in 1..10 : Digits[d] = c
DigitVal(c) == (CHOOSE d \in 1..10 : Digits[d] = c) - 1

HexLower == <<"a", "b", "c", "d", "e", "f">>
HexUpper == <<"A", "B", "C", "D", "E", "F">>
IsHexDigit(c) == IsDigit(c) \/ \E d \in 1..6 : HexLower[d] = c \/ HexUpper[d] = c
HexVal(c) ==
  IF IsDigit(c) THEN DigitVal(c)
  ELSE 9 + CHOOSE d \in 1..6 : HexLower[d] = c \/ HexUpper[d] = c

RECURSIVE DecimalValue(_)
DecimalValue(s) ==
  IF Len(s) = 0 THEN 0
  ELSE 10 * DecimalValue(SubSeq(s, 1, Len(s) - 1)) + DigitVal(s[Len(s)])

RECURSIVE Pow10(_)
Pow10(k) == IF k = 0 THEN 1 ELSE 10 * Pow10(k - 1)

\* ds * m + a for a decimal digit string ds and small m, a.
RECURSIVE MulAdd(_, _, _)
MulAdd(ds, m, a) ==
  IF Len(ds) = 0
  THEN IF a = 0 THEN <<>> ELSE Append(MulAdd(<<>>, m, a \div 10), Digits[(a % 10) + 1])
  ELSE LET x == DigitVal(ds[Len(ds)]) * m + a
       IN Append(MulAdd(SubSeq(ds, 1, Len(ds) - 1), m, x \div 10), Digits[(x % 10) + 1])

\* The decimal digits of a numeral written in base `base`.
RECURSIVE ToDecimalDigits(_, _)
ToDecimalDigits(s, base) ==
  IF Len(s) = 0 THEN <<>>
  ELSE MulAdd(ToDecimalDigits(SubSeq(s, 1, Len(s) - 1), base), base, HexVal(s[Len(s)]))

(***************************************************************************)
(* Doubles.  A Number of the language is an IEEE-754 double: a numeral is  *)
(* read as the double nearest to it (ties to the even mantissa), and a     *)
(* double is named by the shortest decimal numeral that reads back as it   *)
(* (the digits Number::toString prints).  Digit tuples below hold integers *)
(* 0..9, bit tuples 0..1, most significant first.                          *)
(***************************************************************************)
Min(a, b) == IF a < b THEN a ELSE b
Max(a, b) == IF a > b THEN a ELSE b
\* A function on 1..n as a tuple, so that it is worked out once.
Tuple(f) == SubSeq(f, 1, Len(f))
Zeros(n) == Tuple([i \in 1..n |-> 0])
IsZero(ds) == \A i \in 1..Len(ds) : ds[i] = 0
\* The index of the first element that is not 0, Len + 1 when there is none.
FirstNonZero(ds) ==
  IF IsZero(ds) THEN Len(ds) + 1
  ELSE CHOOSE i \in 1..Len(ds) : ds[i] # 0 /\ \A j \in 1..(i - 1) : ds[j] = 0
\* The index of the last element that is not 0, 0 when there is none.
LastNonZero(ds) ==
  IF IsZero(ds) THEN 0
  ELSE CHOOSE i \in 1..Len(ds) : ds[i] # 0 /\ \A j \in (i + 1)..Len(ds) : ds[j] = 0
\* a = b and a < b for two tuples of one length, read as numerals.
Same(a, b) == \A i \in 1..Len(a) : a[i] = b[i]
FirstDifference(a, b) ==
  CHOOSE i \in 1..Len(a) : a[i] # b[i] /\ \A j \in 1..(i - 1) : a[j] = b[j]
LessAt(a, b, i) == a[i] < b[i]
Less(a, b) == ~Same(a, b) /\ LessAt(a, b, FirstDifference(a, b))

\* The digits of ds * base^x before the point and after it.
IntPart(ds, x) == IF x >= 0 THEN ds \o Zeros(x) ELSE SubSeq(ds, 1, Len(ds) + x)
FracPart(ds, x) ==
  IF x >= 0 THEN <<>>
  ELSE IF -x <= Len(ds) THEN SubSeq(ds, Len(ds) + x + 1, Len(ds))
  ELSE Zeros(-x - Len(ds)) \o ds

\* Half of a decimal integer (rounded down), in the same number of digits.
Halve(ds) ==
  Tuple([i \in 1..Len(ds) |->
           (ds[i] + (IF i > 1 /\ ds[i - 1] % 2 = 1 THEN 10 ELSE 0)) \div 2])
\* Twice a decimal fraction 0.fs, without its integer part.
Twice(fs) ==
  Tuple([i \in 1..Len(fs) |->
           (2 * fs[i] + (IF i < Len(fs) /\ fs[i + 1] >= 5 THEN 1 ELSE 0)) % 10])

\* Up to n halvings of st.ds, until nothing is left of it, each putting the
\* bit that falls off in front of st.bits.
HalveStep(st) ==
  [ds |-> Halve(st.ds), bits |-> <<st.ds[Len(st.ds)] % 2>> \o st.bits]
RECURSIVE HalveTimes(_, _)
HalveTimes(n, st) ==
  IF n = 0 \/ IsZero(st.ds) THEN st
  ELSE IF n = 1 THEN HalveStep(st)
  ELSE HalveTimes(n - n \div 2, HalveTimes(n \div 2, st))
\* The bits of a decimal integer.
IntBits(ds) == HalveTimes((10 * Len(ds)) \div 3 + 1, [ds |-> ds, bits |-> <<>>]).bits

\* Up to n doublings of the fraction 0.st.fs, until nothing is left of it,
\* each appending the bit that carries out.
TwiceStep(st) ==
  [fs |-> Twice(st.fs), bits |-> Append(st.bits, IF st.fs[1] >= 5 THEN 1 ELSE 0)]
RECURSIVE TwiceTimes(_, _)
TwiceTimes(n, st) ==
  IF n = 0 \/ IsZero(st.fs) THEN st
  ELSE IF n = 1 THEN TwiceStep(st)
  ELSE TwiceTimes(n - n \div 2, TwiceTimes(n \div 2, st))

\* How many bits after the point rounding needs: none when 54 bits stand
\* before the point, 54 when some do, and otherwise 54 from the first 1,
\* which a number of magnitude 10^mag has within 10 * (1 - mag) / 3 bits;
\* nothing beyond 2^-1075 matters.
FracBitsWanted(ib, frac, mag) ==
  IF Len(frac) = 0 \/ Len(ib) >= 54 THEN 0
  ELSE IF Len(ib) > 0 THEN 54
  ELSE Min((10 * (1 - mag)) \div 3 + 54, 1075)
BinaryJoin(ib, fb) == [bits |-> ib \o fb.bits, point |-> Len(ib), rest |-> ~IsZero(fb.fs)]
BinaryFrom(ib, frac, mag) ==
  BinaryJoin(ib, TwiceTimes(FracBitsWanted(ib, frac, mag), [fs |-> frac, bits |-> <<>>]))
\* The numeral d * 10^x in binary, as far as rounding needs it: the bits, how
\* many of them stand before the point, and whether anything not zero follows
\* them.  d does not start with 0.
Binary(d, x) == BinaryFrom(IntBits(IntPart(d, x)), FracPart(d, x), Len(d) + x)

\* m + 1 and m - 1 for a tuple of bits (m - 1 for m > 0).
IncAt(m, z) == Tuple([i \in 1..Len(m) |-> IF i < z THEN m[i] ELSE IF i = z THEN 1 ELSE 0])
Inc(m) ==
  IF \A i \in 1..Len(m) : m[i] = 1 THEN <<1>> \o Zeros(Len(m))
  ELSE IncAt(m, CHOOSE i \in 1..Len(m) : m[i] = 0 /\ \A j \in (i + 1)..Len(m) : m[j] = 1)
DecAt(m, z) == Tuple([i \in 1..Len(m) |-> IF i < z THEN m[i] ELSE IF i = z THEN 0 ELSE 1])
Dec(m) == DecAt(m, LastNonZero(m))

\* The double nearest to what Binary gives: m * 2^e with m of at most 53 bits
\* that starts with 1 and e >= -1074, or zero, or an infinity.  The bit after
\* the mantissa rounds it up when anything follows that bit or the mantissa
\* is odd.
BitAt(bits, i) == IF i <= Len(bits) THEN bits[i] ELSE 0
Mantissa(bits, q, last) == Tuple([i \in 1..(last - q + 1) |-> BitAt(bits, q + i - 1)])
RoundsUp(b, last, m) ==
  /\ BitAt(b.bits, last + 1) = 1
  /\ \/ b.rest
     \/ \E i \in (last + 2)..Len(b.bits) : b.bits[i] = 1
     \/ Len(m) > 0 /\ m[Len(m)] = 1
Finite(m, e) ==
  IF Len(m) = 0 THEN [kind |-> "zero"]
  ELSE IF e + Len(m) > 1024 THEN [kind |-> "inf"]
  ELSE [kind |-> "finite", m |-> m, e |-> e]
Normal(m, low) == IF Len(m) = 54 THEN Finite(SubSeq(m, 1, 53), low + 1) ELSE Finite(m, low)
RoundMantissa(b, low, m) == Normal(IF RoundsUp(b, b.point - low, m) THEN Inc(m) ELSE m, low)
RoundAt(b, q, low) == RoundMantissa(b, low, Mantissa(b.bits, q, b.point - low))
RoundFrom(b, q) == RoundAt(b, q, Max(b.point - q - 52, -1074))
RoundBits(b) == RoundFrom(b, FirstNonZero(b.bits))

\* The first 17 digits of 2^-1075 = 2.4703282292062327208...e-324, half of
\* the least double: a numeral below them is nearer to zero than to it.
HalfLeast == <<2, 4, 7, 0, 3, 2, 8, 2, 2, 9, 2, 0, 6, 2, 3, 2, 7>>
Leading(d, n) == Tuple([i \in 1..n |-> IF i <= Len(d) THEN d[i] ELSE 0])
\* The double nearest to d * 10^x.  Below 10^-324 everything rounds to zero
\* and from 10^309 on to an infinity.
RoundToDouble(d, x) ==
  IF Len(d) + x > 309 THEN [kind |-> "inf"]
  ELSE IF Len(d) + x < -323 THEN [kind |-> "zero"]
  ELSE IF Len(d) + x = -323 /\ Less(Leading(d, 17), HalfLeast) THEN [kind |-> "zero"]
  ELSE RoundBits(Binary(d, x))

\* acc * 2 + bit and (bit + 0.acc) / 2 on decimal digits of a fixed length.
DoubleAdd(acc, bit) ==
  Tuple([i \in 1..Len(acc) |->
           IF i = Len(acc) THEN ((2 * acc[i]) % 10) + bit
           ELSE (2 * acc[i] + (IF acc[i + 1] >= 5 THEN 1 ELSE 0)) % 10])
HalveAdd(acc, bit) ==
  Tuple([i \in 1..Len(acc) |->
           (acc[i] + (IF (IF i = 1 THEN bit ELSE acc[i - 1]) % 2 = 1 THEN 10 ELSE 0)) \div 2])

\* The decimal digits of the integer with bits[a..b], and of the fraction
\* with bits[a..b] after the point.
RECURSIVE IntFold(_, _, _, _)
IntFold(bits, a, b, acc) ==
  IF Len(acc) = 0 \/ a > b THEN acc
  ELSE IF a = b THEN DoubleAdd(acc, bits[a])
  ELSE IntFold(bits, (a + b) \div 2 + 1, b, IntFold(bits, a, (a + b) \div 2, acc))
RECURSIVE FracFold(_, _, _, _)
FracFold(bits, a, b, acc) ==
  IF Len(acc) = 0 \/ a > b THEN acc
  ELSE IF a = b THEN HalveAdd(acc, bits[a])
  ELSE FracFold(bits, a, (a + b) \div 2, FracFold(bits, (a + b) \div 2 + 1, b, acc))
IntDigitsOfBits(ib) == IntFold(ib, 1, Len(ib), Zeros(Len(ib) \div 3 + 2))
FracDigitsOfBits(fb) == FracFold(fb, 1, Len(fb), Zeros(Len(fb)))

\* bits * 2^e written out in decimal, exactly: the digits before the point
\* (with a zero in front) and the digits after it.
Expand(bits, e) ==
  [int |-> IntDigitsOfBits(IntPart(bits, e)), frac |-> FracDigitsOfBits(FracPart(bits, e))]

\* v cut to its digits up to idx, and the next numeral of that many digits
\* above it.
RoundedDown(v, idx) == Tuple([i \in 1..Len(v) |-> IF i <= idx THEN v[i] ELSE 0])
UpAt(v, z) == Tuple([i \in 1..Len(v) |-> IF i < z THEN v[i] ELSE IF i = z THEN v[i] + 1 ELSE 0])
RoundedUp(v, idx) ==
  UpAt(v, CHOOSE i \in 1..idx : v[i] # 9 /\ \A j \in (i + 1)..idx : v[j] = 9)
\* v is at least as near to the numeral below as to the one above, the even
\* one of the two counting as nearer on a tie.
NearerDown(v, idx) ==
  \/ idx = Len(v)
  \/ v[idx + 1] < 5
  \/ v[idx + 1] = 5 /\ v[idx] % 2 = 0 /\ \A i \in (idx + 2)..Len(v) : v[i] = 0
\* a <= b, or a < b when the bound does not count.
Within(a, b, incl) == Less(a, b) \/ (incl /\ Same(a, b))
Pick(down, up, okDown, okUp, nearerDown) ==
  IF okDown /\ (~okUp \/ nearerDown) THEN down
  ELSE IF okUp THEN up
  ELSE <<>>
Between(v, lo, hi, incl, idx, down, up) ==
  Pick(down, up, Within(lo, down, incl), Within(up, hi, incl), NearerDown(v, idx))
CandidateAt(v, lo, hi, incl, idx) ==
  Between(v, lo, hi, incl, idx, RoundedDown(v, idx), RoundedUp(v, idx))
\* The numeral of k significant digits next to v from below or above that
\* lies between lo and hi (the bounds count when incl), the nearer of the two
\* when both do; <<>> when neither does.
Candidate(v, lo, hi, incl, k) ==
  CandidateAt(v, lo, hi, incl, Min(FirstNonZero(v) + k - 1, Len(v)))

RECURSIVE Shortest(_, _, _, _, _)
Found(c, v, lo, hi, incl, k) == IF Len(c) > 0 THEN c ELSE Shortest(v, lo, hi, incl, k + 1)
Shortest(v, lo, hi, incl, k) == Found(Candidate(v, lo, hi, incl, k), v, lo, hi, incl, k)

\* The double m * 2^e with the midpoints to its two neighbours, in units of
\* 2^(e - 2): below a power of two the neighbour is half as far.
Neighbourhood(m, e) ==
  <<Dec(m) \o (IF Len(m) = 53 /\ IsZero(Tail(m)) /\ e > -1074 THEN <<1, 1>> ELSE <<1, 0>>),
    m \o <<0, 0>>,
    m \o <<1, 0>>>>
Expanded(around, e) == Tuple([i \in 1..3 |-> Expand(around[i], e)])
AllDigits(parts) == parts.int \o parts.frac
Significant(c, point) ==
  [digits |-> SubSeq(c, FirstNonZero(c), LastNonZero(c)), exp |-> point - LastNonZero(c)]
ShortestAmong(x, incl) ==
  Significant(Shortest(AllDigits(x[2]), AllDigits(x[1]), AllDigits(x[3]), incl, 1),
              Len(x[2].int))
\* The shortest numeral that reads back as the double m * 2^e: significant
\* digits and a power of ten.  A numeral reads back as the double when it lies
\* between the midpoints to the two neighbouring doubles; the midpoints
\* themselves read back as it when m is even.
ShortestDigits(m, e) == ShortestAmong(Expanded(Neighbourhood(m, e), e - 2), m[Len(m)] = 0)

\* Numbers that are not a count of hundredths below 10^7: plus or minus
\* digits * 10^exp with no zero at either end of digits, and the infinities.
Sci(sign, digits, exp) == [ty |-> "number", sign |-> sign, digits |-> digits, exp |-> exp]
Infinity(sign) == [ty |-> "number", inf |-> sign]

DigitValues(s) == Tuple([i \in 1..Len(s) |-> DigitVal(s[i])])
DigitChars(d) == Tuple([i \in 1..Len(d) |-> Digits[d[i] + 1]])

\* The number value of plus or minus d * 10^x, for digits d with no zero at
\* either end that name a double.
Written(sign, d, x) ==
  IF x >= -2 /\ Len(d) + x <= 7 THEN Num(sign * DecimalValue(d) * Pow10(x + 2))
  ELSE Sci(sign, d, x)
Named(sign, s) == Written(sign, DigitChars(s.digits), s.exp)
\* The number value of the double r, negated when sign is -1.
NumberOfDouble(sign, r) ==
  CASE r.kind = "zero" -> Num(0)
    [] r.kind = "inf" -> Infinity(sign)
    [] OTHER -> Named(sign, ShortestDigits(r.m, r.e))
\* The number a numeral of digits d (no zero at either end) times 10^x is
\* read as.  A numeral of at most 15 digits between 10^-307 and 10^308 is the
\* shortest numeral of the double it rounds to, so it names that double as
\* it stands.
Numeral(sign, d, x) ==
  IF Len(d) <= 15 /\ Len(d) + x >= -306 /\ Len(d) + x <= 308
  THEN Written(sign, DigitChars(d), x)
  ELSE NumberOfDouble(sign, RoundToDouble(d, x))
\* The same for digits v that may have zeros at either end.
Stripped(sign, v, x) ==
  IF IsZero(v) THEN Num(0)
  ELSE Numeral(sign, SubSeq(v, FirstNonZero(v), LastNonZero(v)), x + Len(v) - LastNonZero(v))
\* The number a numeral denotes: digits ds times 10^scale, negated when neg.
MakeNumber(neg, ds, scale) == Stripped(IF neg THEN -1 ELSE 1, DigitValues(ds), scale)
\* The number of zeros a digit string starts with.
LeadingZeros(ds) == FirstNonZero(DigitValues(ds)) - 1

\* The value of the digits of an exponent, exact below 2 * 10^9.  A string of
\* the runtime has fewer than 2^30 characters, which is as far as the digits
\* of a numeral can move its value, so that from 2 * 10^9 on the exponent
\* alone decides between zero and Infinity and stands for itself at that
\* value.
ExponentValue(ds) ==
  LET d == SubSeq(ds, LeadingZeros(ds) + 1, Len(ds))
  IN IF Len(d) <= 9 THEN DecimalValue(d)
     ELSE IF Len(d) = 10 /\ d[1] = "1" THEN 1000000000 + DecimalValue(Tail(d))
     ELSE 2000000000

\* The index after the run of decimal digits that starts at i.
ScanDigits(s, i) ==
  IF \A k \in i..Len(s) : IsDigit(s[k]) THEN Max(i, Len(s) + 1)
  ELSE CHOOSE j \in i..Len(s) : ~IsDigit(s[j]) /\ \A k \in i..(j - 1) : IsDigit(s[k])

\* s has the characters of word at index i.
MatchAt(s, i, word) ==
  i + Len(word) - 1 <= Len(s) /\ SubSeq(s, i, i + Len(word) - 1) = word

\* String.prototype.trim
RECURSIVE Trim(_)
Trim(text) ==
  IF Len(text) = 0 THEN text
  ELSE IF text[1] \in JsWhiteSpace THEN Trim(Tail(text))
  ELSE IF text[Len(text)] \in JsWhiteSpace THEN Trim(SubSeq(text, 1, Len(text) - 1))
  ELSE text

\* An exponent part at index i of s: ok with its value and the index after
\* it, or not ok.  There is none when s[i] is not e or E.
ExponentPart(s, i) ==
  IF i > Len(s) \/ s[i] \notin {"e", "E"} THEN [ok |-> TRUE, val |-> 0, next |-> i]
  ELSE LET signed == i + 1 <= Len(s) /\ s[i + 1] \in {"+", "-"}
           j == IF signed THEN i + 2 ELSE i + 1
           k == ScanDigits(s, j)
           e == ExponentValue(SubSeq(s, j, k - 1))
       IN IF k = j THEN [ok |-> FALSE, val |-> 0, next |-> i]
          ELSE [ok |-> TRUE, val |-> IF signed /\ s[i + 1] = "-" THEN -e ELSE e, next |-> k]

\* A numeral of Number(string) in base 16, 8 or 2: the prefix, then digits of
\* that base only.
NonDecimal(t) ==
  LET base == CASE t[2] \in {"x", "X"} -> 16
                [] t[2] \in {"o", "O"} -> 8
                [] OTHER -> 2
      body == SubSeq(t, 3, Len(t))
  IN IF Len(body) > 0 /\ \A i \in 1..Len(body) : IsHexDigit(body[i]) /\ HexVal(body[i]) < base
     THEN MakeNumber(FALSE, ToDecimalDigits(body, base), 0)
     ELSE NaN

\* Number(string): white space is trimmed; the empty string is 0; then
\* Infinity with an optional sign, a prefixed numeral of base 16, 8 or 2, or a
\* decimal numeral with optional sign, fraction and exponent; any other text
\* is NaN.
StringToNumber(s) ==
  LET t == Trim(s)
      signed == Len(t) > 0 /\ t[1] \in {"+", "-"}
      neg == signed /\ t[1] = "-"
      i0 == IF signed THEN 2 ELSE 1
      i1 == ScanDigits(t, i0)
      dot == i1 <= Len(t) /\ t[i1] = "."
      i2 == IF dot THEN ScanDigits(t, i1 + 1) ELSE i1
      int == SubSeq(t, i0, i1 - 1)
      frac == IF dot THEN SubSeq(t, i1 + 1, i2 - 1) ELSE <<>>
      ex == ExponentPart(t, i2)
  IN IF Len(t) = 0 THEN Num(0)
     ELSE IF SubSeq(t, i0, Len(t)) = <<"I", "n", "f", "i", "n", "i", "t", "y">>
     THEN Infinity(IF neg THEN -1 ELSE 1)
     ELSE IF Len(t) >= 2 /\ t[1] = "0" /\ t[2] \in {"x", "X", "o", "O", "b", "B"}
     THEN NonDecimal(t)
     ELSE IF Len(int) + Len(frac) > 0 /\ ex.ok /\ ex.next = Len(t) + 1
     THEN MakeNumber(neg, int \o frac, ex.val - Len(frac))
     ELSE NaN

\* Number(v)
RECURSIVE ToNumber(_)
ToNumber(v) ==
  CASE v.ty = "number" -> v
    [] v.ty = "nan" -> NaN
    [] v.ty = "undefined" -> NaN
    [] v.ty = "null" -> Num(0)
    [] v.ty = "boolean" -> IF v.b THEN Num(100) ELSE Num(0)
    [] v.ty = "string" -> StringToNumber(v.s)
    [] v.ty = "object" -> NaN
    [] v.ty = "array" ->
         IF Len(v.elems) = 0 THEN Num(0)
         ELSE IF Len(v.elems) > 1 THEN NaN
         ELSE IF v.elems[1].ty \in {"null", "undefined"} THEN Num(0)
         ELSE IF v.elems[1].ty = "boolean" THEN NaN
         ELSE ToNumber(v.elems[1])

(***************************************************************************)
(* Reply text, the regular expression, JSON.parse                          *)
(***************************************************************************)
\* !text || text.trim().length === 0
IsEmptyReply(text) == Len(text) = 0 \/ Len(Trim(text)) = 0

\* text.match(/\{[\s\S]*\}/): the leftmost "{" that has a "}" after it, taken
\* greedily up to the last "}" of the text; <<>> stands for null (no match).
RegexMatch(text) ==
  LET opens == {i \in 1..Len(text) : text[i] = "{"}
      closes == {j \in 1..Len(text) : text[j] = "}"}
      starts == {i \in opens : \E j \in closes : j > i}
  IN IF starts = {} THEN <<>>
     ELSE LET i == CHOOSE x \in starts : \A y \in starts : x <= y
              j == CHOOSE x \in closes : \A y \in closes : y <= x
          IN SubSeq(text, i, j)

ParseFail == [ok |-> FALSE, val |-> Undefined, next |-> 0]

RECURSIVE SkipWs(_, _)
SkipWs(s, i) == IF i <= Len(s) /\ s[i] \in JsonWhiteSpace THEN SkipWs(s, i + 1) ELSE i

\* The four hexadecimal digits of a \u escape, as a code unit.
Hex4(s, i) ==
  ((HexVal(s[i]) * 16 + HexVal(s[i + 1])) * 16 + HexVal(s[i + 2])) * 16 + HexVal(s[i + 3])

\* The character a two-character escape stands for.
EscapeChar(c) ==
  CASE c = "n" -> "\n"
    [] c = "t" -> "\t"
    [] c = "r" -> "\r"
    [] c = "f" -> "\f"
    [] c = "b" -> BS
    [] OTHER -> c

\* A JSON string from the character after its opening quote.
RECURSIVE ParseString(_, _, _)
ParseString(s, i, acc) ==
  IF i > Len(s) THEN ParseFail
  ELSE IF s[i] = "\"" THEN [ok |-> TRUE, val |-> Str(acc), next |-> i + 1]
  ELSE IF s[i] \in JsonControl THEN ParseFail
  ELSE IF s[i] # "\\" THEN ParseString(s, i + 1, Append(acc, s[i]))
  ELSE IF i + 1 > Len(s) THEN ParseFail
  ELSE IF s[i + 1] \in {"\"", "\\", "/", "b", "f", "n", "r", "t"}
  THEN ParseString(s, i + 2, Append(acc, EscapeChar(s[i + 1])))
  ELSE IF s[i + 1] = "u" /\ i + 5 <= Len(s) /\ \A j \in i + 2..i + 5 : IsHexDigit(s[j])
  THEN ParseString(s, i + 6, Append(acc, CharOfCode(Hex4(s, i + 2))))
  ELSE ParseFail

\* A JSON number at index i: an optional minus, 0 or a run of digits that
\* does not start with 0, an optional fraction, an optional exponent.
ParseNumber(s, i) ==
  LET neg == s[i] = "-"
      i0 == IF neg THEN i + 1 ELSE i
      i1 == IF i0 <= Len(s) /\ s[i0] = "0" THEN i0 + 1 ELSE ScanDigits(s, i0)
      dot == i1 <= Len(s) /\ s[i1] = "."
      i2 == IF dot THEN ScanDigits(s, i1 + 1) ELSE i1
      int == SubSeq(s, i0, i1 - 1)
      frac == IF dot THEN SubSeq(s, i1 + 1, i2 - 1) ELSE <<>>
      ex == ExponentPart(s, i2)
  IN IF Len(int) = 0 \/ (dot /\ Len(frac) = 0) \/ ~ex.ok THEN ParseFail
     ELSE [ok |-> TRUE, val |-> MakeNumber(neg, int \o frac, ex.val - Len(frac)),
           next |-> ex.next]

\* obj with property k set to v: a later member replaces an earlier one.
WithProp(props, k, v) == [x \in DOMAIN props \cup {k} |-> IF x = k THEN v ELSE props[x]]

RECURSIVE ParseValue(_, _), ParseMembers(_, _, _), ParseElems(_, _, _)
ParseValue(s, i0) ==
  LET i == SkipWs(s, i0)
  IN IF i > Len(s) THEN ParseFail
     ELSE CASE s[i] = "{" ->
                 LET j == SkipWs(s, i + 1)
                 IN IF j <= Len(s) /\ s[j] = "}"
                    THEN [ok |-> TRUE, val |-> Obj(NoProps), next |-> j + 1]
                    ELSE ParseMembers(s, j, NoProps)
            [] s[i] = "[" ->
                 LET j == SkipWs(s, i + 1)
                 IN IF j <= Len(s) /\ s[j] = "]"
                    THEN [ok |-> TRUE, val |-> Arr(<<>>), next |-> j + 1]
                    ELSE ParseElems(s, j, <<>>)
            [] s[i] = "\"" -> ParseString(s, i + 1, <<>>)
            [] s[i] = "-" \/ IsDigit(s[i]) -> ParseNumber(s, i)
            [] MatchAt(s, i, <<"t", "r", "u", "e">>) ->
                 [ok |-> TRUE, val |-> Bool(TRUE), next |-> i + 4]
            [] MatchAt(s, i, <<"f", "a", "l", "s", "e">>) ->
                 [ok |-> TRUE, val |-> Bool(FALSE), next |-> i + 5]
            [] MatchAt(s, i, <<"n", "u", "l", "l">>) ->
                 [ok |-> TRUE, val |-> Null, next |-> i + 4]
            [] OTHER -> ParseFail

\* The members of an object from index i, where a key must start: a string,
\* a colon, a value, then a comma and the next member or the closing brace.
ParseMembers(s, i, props) ==
  IF i > Len(s) \/ s[i] # "\"" THEN ParseFail
  ELSE LET key == ParseString(s, i + 1, <<>>)
           c == IF key.ok THEN SkipWs(s, key.next) ELSE 0
       IN IF ~key.ok \/ c > Len(s) \/ s[c] # ":" THEN ParseFail
          ELSE LET r == ParseValue(s, c + 1)
                   j == IF r.ok THEN SkipWs(s, r.next) ELSE 0
               IN IF ~r.ok \/ j > Len(s) THEN ParseFail
                  ELSE IF s[j] = "}"
                  THEN [ok |-> TRUE, val |-> Obj(WithProp(props, key.val.s, r.val)),
                        next |-> j + 1]
                  ELSE IF s[j] = ","
                  THEN ParseMembers(s, SkipWs(s, j + 1), WithProp(props, key.val.s, r.val))
                  ELSE ParseFail

\* The elements of an array from index i, where a value must start.
ParseElems(s, i, elems) ==
  LET r == ParseValue(s, i)
      j == IF r.ok THEN SkipWs(s, r.next) ELSE 0
  IN IF ~r.ok \/ j > Len(s) THEN ParseFail
     ELSE IF s[j] = "]" THEN [ok |-> TRUE, val |-> Arr(Append(elems, r.val)), next |-> j + 1]
     ELSE IF s[j] = "," THEN ParseElems(s, j + 1, Append(elems, r.val))
     ELSE ParseFail

\* JSON.parse(s): one value, white space around it, nothing else; ok = FALSE
\* stands for the SyntaxError it throws.
JSONParse(s) ==
  LET r == ParseValue(s, 1)
  IN IF r.ok /\ SkipWs(s, r.next) > Len(s) THEN [ok |-> TRUE, val |-> r.val]
     ELSE [ok |-> FALSE, val |-> Undefined]

\* The try block around the two JSON.parse calls: the span the regular
\* expression matched if there is one, the whole text otherwise.
ExtractJSON(text) ==
  LET jsonMatch == RegexMatch(text)
  IN IF Len(jsonMatch) > 0 THEN JSONParse(jsonMatch) ELSE JSONParse(text)

\* !parsed || typeof parsed !== 'object' : the reply is refused.
NotAValidObject(parsed) == ~Truthy(parsed) \/ TypeOf(parsed) # "object"

(***************************************************************************)
(* Normalisation (the `normalized` literal of getStockMetrics)             *)
(***************************************************************************)
NumFields ==
  {"currentPrice", "dayHigh", "dayLow", "peRatio", "roe", "debtToEquity",
   "profitMargins", "revenueGrowth"}

(***************************************************************************)
(* Arithmetic on doubles that are not negative: the exact product or sum   *)
(* of the two doubles, rounded to the nearest double.  An exact value is   *)
(* digits ds times 10^x, x <= 0.                                           *)
(***************************************************************************)
\* The sum of a[i] * b[k - i] over i in lo..hi.
RECURSIVE Column(_, _, _, _, _)
Column(a, b, k, lo, hi) ==
  IF lo > hi THEN 0
  ELSE IF lo = hi THEN a[lo] * b[k - lo]
  ELSE Column(a, b, k, lo, (lo + hi) \div 2) + Column(a, b, k, (lo + hi) \div 2 + 1, hi)

\* Columns cols[a..b] turned into digits from the right: st.c is the carry
\* into the column, st.out the digits to its right.  (The test on st.c always
\* fails; it has st worked out before the columns to the left are taken.)
CarryStep(cols, i, st) ==
  [c |-> (cols[i] + st.c) \div 10, out |-> <<(cols[i] + st.c) % 10>> \o st.out]
RECURSIVE CarryFold(_, _, _, _)
CarryFold(cols, a, b, st) ==
  IF st.c < 0 \/ a > b THEN st
  ELSE IF a = b THEN CarryStep(cols, a, st)
  ELSE CarryFold(cols, a, (a + b) \div 2, CarryFold(cols, (a + b) \div 2 + 1, b, st))
\* The digits of a tuple of columns whose first column is 0.
Carried(cols) == CarryFold(cols, 1, Len(cols), [c |-> 0, out |-> <<>>]).out

ExactProduct(a, b) ==
  [ds |-> Carried(Tuple([k \in 1..(Len(a.ds) + Len(b.ds)) |->
                           Column(a.ds, b.ds, k, Max(1, k - Len(b.ds)), Min(Len(a.ds), k - 1))])),
   x |-> a.x + b.x]

\* The digits of a down to 10^x, n digits in all.
Aligned(a, x, n) == Zeros(n - Len(a.ds) - (a.x - x)) \o a.ds \o Zeros(a.x - x)
ColumnSums(p, q) == Tuple([i \in 1..Len(p) |-> p[i] + q[i]])
ExactSumAt(a, b, x, n) == [ds |-> Carried(ColumnSums(Aligned(a, x, n), Aligned(b, x, n))), x |-> x]
ExactSum(a, b) ==
  ExactSumAt(a, b, Min(a.x, b.x), 1 + Max(Len(a.ds) + a.x, Len(b.ds) + b.x) - Min(a.x, b.x))

\* The decimal digits of a natural number.
RECURSIVE IntDigits(_)
IntDigits(n) == IF n < 10 THEN <<n>> ELSE Append(IntDigits(n \div 10), n % 10)
\* The digits and the power of ten of a number value that is finite and not
\* negative.
NumberDigits(v) ==
  IF "n" \in DOMAIN v THEN [ds |-> IntDigits(v.n), x |-> -2]
  ELSE [ds |-> DigitValues(v.digits), x |-> v.exp]
\* The double nearest to a.ds * 10^a.x.
DoubleOf(a) ==
  IF IsZero(a.ds) THEN [kind |-> "zero"]
  ELSE RoundToDouble(SubSeq(a.ds, FirstNonZero(a.ds), Len(a.ds)), a.x)
\* A double that is finite and not negative, written out exactly: digits ds
\* times 10^x.
Joined(parts) == [ds |-> parts.int \o parts.frac, x |-> -Len(parts.frac)]
ExactOfDouble(r) ==
  IF r.kind = "zero" THEN [ds |-> <<0>>, x |-> 0] ELSE Joined(Expand(r.m, r.e))
Exact(v) == ExactOfDouble(DoubleOf(NumberDigits(v)))
\* a * b and a + b for doubles a and b written out exactly: the product or
\* sum, rounded to the nearest double.
Times(a, b) == ExactOfDouble(DoubleOf(ExactProduct(a, b)))
Plus(a, b) == ExactOfDouble(DoubleOf(ExactSum(a, b)))
NumberOfExact(a) == Stripped(1, a.ds, a.x)

\* Math.random() * PlaceholderSpan + PlaceholderBase
PlaceholderSpan ==
  [f \in NumFields |->
     CASE f \in {"currentPrice", "dayHigh", "dayLow"} -> Num(100 * 100)
       [] f = "peRatio" -> Num(30 * 100)
       [] f \in {"roe", "profitMargins"} -> Num(50)
       [] f = "debtToEquity" -> Num(1 * 100)
       [] f = "revenueGrowth" -> Num(30)]

PlaceholderBase ==
  [f \in NumFields |->
     CASE f = "currentPrice" -> Num(50 * 100)
       [] f = "dayHigh" -> Num(60 * 100)
       [] f = "dayLow" -> Num(40 * 100)
       [] f = "peRatio" -> Num(10 * 100)
       [] f \in {"roe", "profitMargins"} -> Num(10)
       [] f = "debtToEquity" -> Num(20)
       [] f = "revenueGrowth" -> Num(5)]

\* random * PlaceholderSpan + PlaceholderBase, for the double `random` that
\* Math.random() gave, 0 <= random < 1: the product is rounded to a double and
\* so is the sum.
PlaceholderOf(f, random) ==
  NumberOfExact(Plus(Times(Exact(random), Exact(PlaceholderSpan[f])),
                     Exact(PlaceholderBase[f])))

\* The doubles the specifications take for Math.random(): the nearest to each
\* multiple of one tenth, 0.123456789, and 0.9999999999999999, the greatest
\* double below 1.
Tenth(t) == Num(10 * t)
GreatestRandom == Sci(1, DigitChars(Tuple([i \in 1..16 |-> 9])), -16)
RandomValues ==
  {Tenth(t) : t \in 0..9} \cup {Sci(1, DigitChars(<<1, 2, 3, 4, 5, 6, 7, 8, 9>>), -9), GreatestRandom}
\* Their placeholders, worked out once.
PlaceholderValue ==
  [f \in NumFields |-> [random \in RandomValues |-> PlaceholderOf(f, random)]]
Placeholder(f, random) ==
  IF random \in RandomValues THEN PlaceholderValue[f][random] ELSE PlaceholderOf(f, random)

\* parsed.f ? Number(parsed.f) : Math.random() * span + base
NumericField(parsed, f, random) ==
  IF Truthy(Get(parsed, f)) THEN ToNumber(Get(parsed, f)) ELSE Placeholder(f, random)

\* The `normalized` object; rnd gives each field's Math.random() draw.
Normalize(parsed, stockSymbol, rnd) ==
  [stockName |-> Or(Or(Get(parsed, "stockName"), Get(parsed, "name")), Str(stockSymbol)),
   symbol |-> Or(Get(parsed, "symbol"), Str(stockSymbol)),
   currentPrice |-> NumericField(parsed, "currentPrice", rnd["currentPrice"]),
   dayHigh |-> NumericField(parsed, "dayHigh", rnd["dayHigh"]),
   dayLow |-> NumericField(parsed, "dayLow", rnd["dayLow"]),
   peRatio |-> NumericField(parsed, "peRatio", rnd["peRatio"]),
   roe |-> NumericField(parsed, "roe", rnd["roe"]),
   debtToEquity |-> NumericField(parsed, "debtToEquity", rnd["debtToEquity"]),
   profitMargins |-> NumericField(parsed, "profitMargins", rnd["profitMargins"]),
   revenueGrowth |-> NumericField(parsed, "revenueGrowth", rnd["revenueGrowth"])]

(***************************************************************************)
(* What model.generateContent can do                                       *)
(***************************************************************************)
\* The promise rejects, or reading the reply throws.
Rejected == [kind |-> "rejected", text |-> <<>>]
\* The promise resolves to a result whose response has no text function.
NoText == [kind |-> "notext", text |-> <<>>]
\* The promise resolves to a result that has no response.
NoResponse == [kind |-> "noresponse", text |-> <<>>]
\* The promise resolves and result.response.text() is `text`.
Replied(text) == [kind |-> "text", text |-> text]

\* result?.response?.text?.() ?? ""
ReplyText(reply) == IF reply.kind = "text" THEN reply.text ELSE <<>>

\* Variant: the catch throws a message that leaves the symbol out.
RetrievalError_Generic(stockSymbol) ==
  [template |-> "Failed to process stock data request.", stockSymbol |-> <<>>]

\* The message of what await model.generateContent or result.response.text()
\* throws in the /analyze handler.
ModelError(reply) ==
  [template |-> CASE reply.kind = "rejected" -> "generateContent failed"
                  [] reply.kind = "notext" -> "result.response.text is not a function"
                  [] OTHER -> "Cannot read properties of undefined (reading 'text')",
   stockSymbol |-> <<>>]

\* The message of the Error the outer catch throws.
RetrievalError(stockSymbol) ==
  [template |-> "Failed to retrieve real-time data for ${stockSymbol}. Please ensure the symbol is valid and try again.",
   stockSymbol |-> stockSymbol]

NoData == [none |-> TRUE]

\* getStockMetrics throws: the outer catch swallows the error whose message is
\* `inner` and throws its own.
Thrown(inner, stockSymbol) ==
  [ok |-> FALSE, data |-> NoData, inner |-> inner, message |-> RetrievalError(stockSymbol)]

\* getStockMetrics from the end of the try block around JSON.parse, which gave
\* ext, to its return or throw.
RetrieveParsed(ext, stockSymbol, rnd) ==
  IF ~ext.ok THEN Thrown("Invalid JSON response from API", stockSymbol)
  ELSE IF NotAValidObject(ext.val) THEN Thrown("Response is not a valid object", stockSymbol)
  ELSE [ok |-> TRUE, data |-> Normalize(ext.val, stockSymbol, rnd), inner |-> "",
        message |-> RetrievalError(stockSymbol)]

\* getStockMetrics from the settling of model.generateContent to its return
\* or throw: ok with the normalized record, or the error the catch rethrows.
Retrieve(reply, stockSymbol, rnd) ==
  IF reply.kind = "rejected" THEN Thrown("generateContent failed", stockSymbol)
  ELSE IF IsEmptyReply(ReplyText(reply)) THEN Thrown("Empty response from API", stockSymbol)
  ELSE RetrieveParsed(ExtractJSON(ReplyText(reply)), stockSymbol, rnd)

(***************************************************************************)
(* The cache                                                               *)
(***************************************************************************)
\* 5 * 60 * 1000 ms
CACHE_TTL == 5 * 60 * 1000

\* Variant: a lookup that does not look at the key.
MapGet_AnyKey(cache, k) ==
  IF DOMAIN cache = {} THEN Undefined ELSE cache[CHOOSE x \in DOMAIN cache : TRUE]

\* stockCache.get(k): the entry, or undefined.
MapGet(cache, k) == IF k \in DOMAIN cache THEN cache[k] ELSE Undefined

\* Variant: a store that holds one entry and drops the others.
MapSet_SingleEntry(cache, k, e) == [x \in {k} |-> e]

\* stockCache.set(k, e)
MapSet(cache, k, e) == [x \in DOMAIN cache \cup {k} |-> IF x = k THEN e ELSE cache[x]]

\* Variants of the freshness test: the comparison turned round, the age not
\* looked at, the boundary included.
IsFresh_Reversed(cached, t) == cached # Undefined /\ t - cached.timestamp > CACHE_TTL
IsFresh_NoExpiry(cached, t) == cached # Undefined
IsFresh_Inclusive(cached, t) == cached # Undefined /\ t - cached.timestamp <= CACHE_TTL

\* cached && Date.now() - cached.timestamp < CACHE_TTL
IsFresh(cached, t) == cached # Undefined /\ t - cached.timestamp < CACHE_TTL

\* Variant: the entry is stored before the reply has been validated.
CacheAfter_Always(cache, stockSymbol, res, t) ==
  MapSet(cache, stockSymbol, [data |-> res.data, timestamp |-> t])

\* Variant: a record is stored only where the map has no entry yet.
CacheAfter_FirstWriterWins(cache, stockSymbol, res, t) ==
  IF res.ok /\ stockSymbol \notin DOMAIN cache
  THEN MapSet(cache, stockSymbol, [data |-> res.data, timestamp |-> t])
  ELSE cache

\* Variant: the record is returned without being stored.
CacheAfter_Never(cache, stockSymbol, res, t) == cache

\* The cache after getStockMetrics has handled the reply at time t: line 211
\* runs only when nothing before it threw.
CacheAfter(cache, stockSymbol, res, t) ==
  IF res.ok THEN MapSet(cache, stockSymbol, [data |-> res.data, timestamp |-> t])
  ELSE cache

(***************************************************************************)
(* Requests                                                                *)
(***************************************************************************)
\* The letters a to z and A to Z, and what toUpperCase and toLowerCase make
\* of a character of ASCII.
LowerCase == SubSeq(Ascii, 66, 91)
UpperCase == SubSeq(Ascii, 34, 59)
AsciiUpper ==
  [c \in {Ascii[j] : j \in 1..Len(Ascii)} |->
     IF \E j \in 1..26 : LowerCase[j] = c
     THEN UpperCase[CHOOSE j \in 1..26 : LowerCase[j] = c] ELSE c]
AsciiLower ==
  [c \in {Ascii[j] : j \in 1..Len(Ascii)} |->
     IF \E j \in 1..26 : UpperCase[j] = c
     THEN LowerCase[CHOOSE j \in 1..26 : UpperCase[j] = c] ELSE c]

\* The characters that toUpperCase changes outside ASCII, each with what it
\* becomes (Unicode 17 full case mapping: UnicodeData and the unconditional
\* part of SpecialCasing).  A character beyond U+FFFF is its two surrogates.
UpperCaseMapping ==
  <<<< <<"<<181>>">>, <<"<<924>>">> >>, << <<"<<223>>">>, <<"S", "S">> >>,
    << <<"<<224>>">>, <<"<<192>>">> >>, << <<"<<225>>">>, <<"<<193>>">> >>,
    << <<"<<226>>">>, <<"<<194>>">> >>, << <<"<<227>>">>, <<"<<195>>">> >>,
    << <<"<<228>>">>, <<"<<196>>">> >>, << <<"<<229>>">>, <<"<<197>>">> >>,
    << <<"<<230>>">>, <<"<<198>>">> >>, << <<"<<231>>">>, <<"<<199>>">> >>,
    << <<"<<232>>">>, <<"<<200>>">> >>, << <<"<<233>>">>, <<"<<201>>">> >>,
    << <<"<<234>>">>, <<"<<202>>">> >>, << <<"<<235>>">>, <<"<<203>>">> >>,
    << <<"<<236>>">>, <<"<<204>>">> >>, << <<"<<237>>">>, <<"<<205>>">> >>,
    << <<"<<238>>">>, <<"<<206>>">> >>, << <<"<<239>>">>, <<"<<207>>">> >>,
    << <<"<<240>>">>, <<"<<208>>">> >>, << <<"<<241>>">>, <<"<<209>>">> >>,
    << <<"<<242>>">>, <<"<<210>>">> >>, << <<"<<243>>">>, <<"<<211>>">> >>,
    << <<"<<244>>">>, <<"<<212>>">> >>, << <<"<<245>>">>, <<"<<213>>">> >>,
    << <<"<<246>>">>, <<"<<214>>">> >>, << <<"<<248>>">>, <<"<<216>>">> >>,
    << <<"<<249>>">>, <<"<<217>>">> >>, << <<"<<250>>">>, <<"<<218>>">> >>,
    << <<"<<251>>">>, <<"<<219>>">> >>, << <<"<<252>>">>, <<"<<220>>">> >>,
    << <<"<<253>>">>, <<"<<221>>">> >>, << <<"<<254>>">>, <<"<<222>>">> >>,
    << <<"<<255>>">>, <<"<<376>>">> >>, << <<"<<257>>">>, <<"<<256>>">> >>,
    << <<"<<259>>">>, <<"<<258>>">> >>, << <<"<<261>>">>, <<"<<260>>">> >>,
    << <<"<<263>>">>, <<"<<262>>">> >>, << <<"<<265>>">>, <<"<<264>>">> >>,
    << <<"<<267>>">>, <<"<<266>>">> >>, << <<"<<269>>">>, <<"<<268>>">> >>,
    << <<"<<271>>">>, <<"<<270>>">> >>, << <<"<<273>>">>, <<"<<272>>">> >>,
    << <<"<<275>>">>, <<"<<274>>">> >>, << <<"<<277>>">>, <<"<<276>>">> >>,
    << <<"<<279>>">>, <<"<<278>>">> >>, << <<"<<281>>">>, <<"<<280>>">> >>,
    << <<"<<283>>">>, <<"<<282>>">> >>, << <<"<<285>>">>, <<"<<284>>">> >>,
    << <<"<<287>>">>, <<"<<286>>">> >>, << <<"<<289>>">>, <<"<<288>>">> >>,
    << <<"<<291>>">>, <<"<<290>>">> >>, << <<"<<293>>">>, <<"<<292>>">> >>,
    << <<"<<295>>">>, <<"<<294>>">> >>, << <<"<<297>>">>, <<"<<296>>">> >>,
    << <<"<<299>>">>, <<"<<298>>">> >>, << <<"<<301>>">>, <<"<<300>>">> >>,
    << <<"<<303>>">>, <<"<<302>>">> >>, << <<"<<305>>">>, <<"I">> >>,
    << <<"<<307>>">>, <<"<<306>>">> >>, << <<"<<309>>">>, <<"<<308>>">> >>,
    << <<"<<311>>">>, <<"<<310>>">> >>, << <<"<<314>>">>, <<"<<313>>">> >>,
    << <<"<<316>>">>, <<"<<315>>">> >>, << <<"<<318>>">>, <<"<<317>>">> >>,
    << <<"<<320>>">>, <<"<<319>>">> >>, << <<"<<322>>">>, <<"<<321>>">> >>,
    << <<"<<324>>">>, <<"<<323>>">> >>, << <<"<<326>>">>, <<"<<325>>">> >>,
    << <<"<<328>>">>, <<"<<327>>">> >>, << <<"<<329>>">>, <<"<<700>>", "N">> >>,
    << <<"<<331>>">>, <<"<<330>>">> >>, << <<"<<333>>">>, <<"<<332>>">> >>,
    << <<"<<335>>">>, <<"<<334>>">> >>, << <<"<<337>>">>, <<"<<336>>">> >>,
    << <<"<<339>>">>, <<"<<338>>">> >>, << <<"<<341>>">>, <<"<<340>>">> >>,
    << <<"<<343>>">>, <<"<<342>>">> >>, << <<"<<345>>">>, <<"<<344>>">> >>,
    << <<"<<347>>">>, <<"<<346>>">> >>, << <<"<<349>>">>, <<"<<348>>">> >>,
    << <<"<<351>>">>, <<"<<350>>">> >>, << <<"<<353>>">>, <<"<<352>>">> >>,
    << <<"<<355>>">>, <<"<<354>>">> >>, << <<"<<357>>">>, <<"<<356>>">> >>,
    << <<"<<359>>">>, <<"<<358>>">> >>, << <<"<<361>>">>, <<"<<360>>">> >>,
    << <<"<<363>>">>, <<"<<362>>">> >>, << <<"<<365>>">>, <<"<<364>>">> >>,
    << <<"<<367>>">>, <<"<<366>>">> >>, << <<"<<369>>">>, <<"<<368>>">> >>,
    << <<"<<371>>">>, <<"<<370>>">> >>, << <<"<<373>>">>, <<"<<372>>">> >>,
    << <<"<<375>>">>, <<"<<374>>">> >>, << <<"<<378>>">>, <<"<<377>>">> >>,
    << <<"<<380>>">>, <<"<<379>>">> >>, << <<"<<382>>">>, <<"<<381>>">> >>,
    << <<"<<383>>">>, <<"S">> >>, << <<"<<384>>">>, <<"<<579>>">> >>,
    << <<"<<387>>">>, <<"<<386>>">> >>, << <<"<<389>>">>, <<"<<388>>">> >>,
    << <<"<<392>>">>, <<"<<391>>">> >>, << <<"<<396>>">>, <<"<<395>>">> >>,
    << <<"<<402>>">>, <<"<<401>>">> >>, << <<"<<405>>">>, <<"<<502>>">> >>,
    << <<"<<409>>">>, <<"<<408>>">> >>, << <<"<<410>>">>, <<"<<573>>">> >>,
    << <<"<<411>>">>, <<"<<42972>>">> >>, << <<"<<414>>">>, <<"<<544>>">> >>,
    << <<"<<417>>">>, <<"<<416>>">> >>, << <<"<<419>>">>, <<"<<418>>">> >>,
    << <<"<<421>>">>, <<"<<420>>">> >>, << <<"<<424>>">>, <<"<<423>>">> >>,
    << <<"<<429>>">>, <<"<<428>>">> >>, << <<"<<432>>">>, <<"<<431>>">> >>,
    << <<"<<436>>">>, <<"<<435>>">> >>, << <<"<<438>>">>, <<"<<437>>">> >>,
    << <<"<<441>>">>, <<"<<440>>">> >>, << <<"<<445>>">>, <<"<<444>>">> >>,
    << <<"<<447>>">>, <<"<<503>>">> >>, << <<"<<453>>">>, <<"<<452>>">> >>,
    << <<"<<454>>">>, <<"<<452>>">> >>, << <<"<<456>>">>, <<"<<455>>">> >>,
    << <<"<<457>>">>, <<"<<455>>">> >>, << <<"<<459>>">>, <<"<<458>>">> >>,
    << <<"<<460>>">>, <<"<<458>>">> >>, << <<"<<462>>">>, <<"<<461>>">> >>,
    << <<"<<464>>">>, <<"<<463>>">> >>, << <<"<<466>>">>, <<"<<465>>">> >>,
    << <<"<<468>>">>, <<"<<467>>">> >>, << <<"<<470>>">>, <<"<<469>>">> >>,
    << <<"<<472>>">>, <<"<<471>>">> >>, << <<"<<474>>">>, <<"<<473>>">> >>,
    << <<"<<476>>">>, <<"<<475>>">> >>, << <<"<<477>>">>, <<"<<398>>">> >>,
    << <<"<<479>>">>, <<"<<478>>">> >>, << <<"<<481>>">>, <<"<<480>>">> >>,
    << <<"<<483>>">>, <<"<<482>>">> >>, << <<"<<485>>">>, <<"<<484>>">> >>,
    << <<"<<487>>">>, <<"<<486>>">> >>, << <<"<<489>>">>, <<"<<488>>">> >>,
    << <<"<<491>>">>, <<"<<490>>">> >>, << <<"<<493>>">>, <<"<<492>>">> >>,
    << <<"<<495>>">>, <<"<<494>>">> >>, << <<"<<496>>">>, <<"J", "<<780>>">> >>,
    << <<"<<498>>">>, <<"<<497>>">> >>, << <<"<<499>>">>, <<"<<497>>">> >>,
    << <<"<<501>>">>, <<"<<500>>">> >>, << <<"<<505>>">>, <<"<<504>>">> >>,
    << <<"<<507>>">>, <<"<<506>>">> >>, << <<"<<509>>">>, <<"<<508>>">> >>,
    << <<"<<511>>">>, <<"<<510>>">> >>, << <<"<<513>>">>, <<"<<512>>">> >>,
    << <<"<<515>>">>, <<"<<514>>">> >>, << <<"<<517>>">>, <<"<<516>>">> >>,
    << <<"<<519>>">>, <<"<<518>>">> >>, << <<"<<521>>">>, <<"<<520>>">> >>,
    << <<"<<523>>">>, <<"<<522>>">> >>, << <<"<<525>>">>, <<"<<524>>">> >>,
    << <<"<<527>>">>, <<"<<526>>">> >>, << <<"<<529>>">>, <<"<<528>>">> >>,
    << <<"<<531>>">>, <<"<<530>>">> >>, << <<"<<533>>">>, <<"<<532>>">> >>,
    << <<"<<535>>">>, <<"<<534>>">> >>, << <<"<<537>>">>, <<"<<536>>">> >>,
    << <<"<<539>>">>, <<"<<538>>">> >>, << <<"<<541>>">>, <<"<<540>>">> >>,
    << <<"<<543>>">>, <<"<<542>>">> >>, << <<"<<547>>">>, <<"<<546>>">> >>,
    << <<"<<549>>">>, <<"<<548>>">> >>, << <<"<<551>>">>, <<"<<550>>">> >>,
    << <<"<<553>>">>, <<"<<552>>">> >>, << <<"<<555>>">>, <<"<<554>>">> >>,
    << <<"<<557>>">>, <<"<<556>>">> >>, << <<"<<559>>">>, <<"<<558>>">> >>,
    << <<"<<561>>">>, <<"<<560>>">> >>, << <<"<<563>>">>, <<"<<562>>">> >>,
    << <<"<<572>>">>, <<"<<571>>">> >>, << <<"<<575>>">>, <<"<<11390>>">> >>,
    << <<"<<576>>">>, <<"<<11391>>">> >>, << <<"<<578>>">>, <<"<<577>>">> >>,
    << <<"<<583>>">>, <<"<<582>>">> >>, << <<"<<585>>">>, <<"<<584>>">> >>,
    << <<"<<587>>">>, <<"<<586>>">> >>, << <<"<<589>>">>, <<"<<588>>">> >>,
    << <<"<<591>>">>, <<"<<590>>">> >>, << <<"<<592>>">>, <<"<<11375>>">> >>,
    << <<"<<593>>">>, <<"<<11373>>">> >>, << <<"<<594>>">>, <<"<<11376>>">> >>,
    << <<"<<595>>">>, <<"<<385>>">> >>, << <<"<<596>>">>, <<"<<390>>">> >>,
    << <<"<<598>>">>, <<"<<393>>">> >>, << <<"<<599>>">>, <<"<<394>>">> >>,
    << <<"<<601>>">>, <<"<<399>>">> >>, << <<"<<603>>">>, <<"<<400>>">> >>,
    << <<"<<604>>">>, <<"<<42923>>">> >>, << <<"<<608>>">>, <<"<<403>>">> >>,
    << <<"<<609>>">>, <<"<<42924>>">> >>, << <<"<<611>>">>, <<"<<404>>">> >>,
    << <<"<<612>>">>, <<"<<42955>>">> >>, << <<"<<613>>">>, <<"<<42893>>">> >>,
    << <<"<<614>>">>, <<"<<42922>>">> >>, << <<"<<616>>">>, <<"<<407>>">> >>,
    << <<"<<617>>">>, <<"<<406>>">> >>, << <<"<<618>>">>, <<"<<42926>>">> >>,
    << <<"<<619>>">>, <<"<<11362>>">> >>, << <<"<<620>>">>, <<"<<42925>>">> >>,
    << <<"<<623>>">>, <<"<<412>>">> >>, << <<"<<625>>">>, <<"<<11374>>">> >>,
    << <<"<<626>>">>, <<"<<413>>">> >>, << <<"<<629>>">>, <<"<<415>>">> >>,
    << <<"<<637>>">>, <<"<<11364>>">> >>, << <<"<<640>>">>, <<"<<422>>">> >>,
    << <<"<<642>>">>, <<"<<42949>>">> >>, << <<"<<643>>">>, <<"<<425>>">> >>,
    << <<"<<647>>">>, <<"<<42929>>">> >>, << <<"<<648>>">>, <<"<<430>>">> >>,
    << <<"<<649>>">>, <<"<<580>>">> >>, << <<"<<650>>">>, <<"<<433>>">> >>,
    << <<"<<651>>">>, <<"<<434>>">> >>, << <<"<<652>>">>, <<"<<581>>">> >>,
    << <<"<<658>>">>, <<"<<439>>">> >>, << <<"<<669>>">>, <<"<<42930>>">> >>,
    << <<"<<670>>">>, <<"<<42928>>">> >>, << <<"<<837>>">>, <<"<<921>>">> >>,
    << <<"<<881>>">>, <<"<<880>>">> >>, << <<"<<883>>">>, <<"<<882>>">> >>,
    << <<"<<887>>">>, <<"<<886>>">> >>, << <<"<<891>>">>, <<"<<1021>>">> >>,
    << <<"<<892>>">>, <<"<<1022>>">> >>, << <<"<<893>>">>, <<"<<1023>>">> >>,
    << <<"<<912>>">>, <<"<<921>>", "<<776>>", "<<769>>">> >>,
    << <<"<<940>>">>, <<"<<902>>">> >>, << <<"<<941>>">>, <<"<<904>>">> >>,
    << <<"<<942>>">>, <<"<<905>>">> >>, << <<"<<943>>">>, <<"<<906>>">> >>,
    << <<"<<944>>">>, <<"<<933>>", "<<776>>", "<<769>>">> >>,
    << <<"<<945>>">>, <<"<<913>>">> >>, << <<"<<946>>">>, <<"<<914>>">> >>,
    << <<"<<947>>">>, <<"<<915>>">> >>, << <<"<<948>>">>, <<"<<916>>">> >>,
    << <<"<<949>>">>, <<"<<917>>">> >>, << <<"<<950>>">>, <<"<<918>>">> >>,
    << <<"<<951>>">>, <<"<<919>>">> >>, << <<"<<952>>">>, <<"<<920>>">> >>,
    << <<"<<953>>">>, <<"<<921>>">> >>, << <<"<<954>>">>, <<"<<922>>">> >>,
    << <<"<<955>>">>, <<"<<923>>">> >>, << <<"<<956>>">>, <<"<<924>>">> >>,
    << <<"<<957>>">>, <<"<<925>>">> >>, << <<"<<958>>">>, <<"<<926>>">> >>,
    << <<"<<959>>">>, <<"<<927>>">> >>, << <<"<<960>>">>, <<"<<928>>">> >>,
    << <<"<<961>>">>, <<"<<929>>">> >>, << <<"<<962>>">>, <<"<<931>>">> >>,
    << <<"<<963>>">>, <<"<<931>>">> >>, << <<"<<964>>">>, <<"<<932>>">> >>,
    << <<"<<965>>">>, <<"<<933>>">> >>, << <<"<<966>>">>, <<"<<934>>">> >>,
    << <<"<<967>>">>, <<"<<935>>">> >>, << <<"<<968>>">>, <<"<<936>>">> >>,
    << <<"<<969>>">>, <<"<<937>>">> >>, << <<"<<970>>">>, <<"<<938>>">> >>,
    << <<"<<971>>">>, <<"<<939>>">> >>, << <<"<<972>>">>, <<"<<908>>">> >>,
    << <<"<<973>>">>, <<"<<910>>">> >>, << <<"<<974>>">>, <<"<<911>>">> >>,
    << <<"<<976>>">>, <<"<<914>>">> >>, << <<"<<977>>">>, <<"<<920>>">> >>,
    << <<"<<981>>">>, <<"<<934>>">> >>, << <<"<<982>>">>, <<"<<928>>">> >>,
    << <<"<<983>>">>, <<"<<975>>">> >>, << <<"<<985>>">>, <<"<<984>>">> >>,
    << <<"<<987>>">>, <<"<<986>>">> >>, << <<"<<989>>">>, <<"<<988>>">> >>,
    << <<"<<991>>">>, <<"<<990>>">> >>, << <<"<<993>>">>, <<"<<992>>">> >>,
    << <<"<<995>>">>, <<"<<994>>">> >>, << <<"<<997>>">>, <<"<<996>>">> >>,
    << <<"<<999>>">>, <<"<<998>>">> >>, << <<"<<1001>>">>, <<"<<1000>>">> >>,
    << <<"<<1003>>">>, <<"<<1002>>">> >>, << <<"<<1005>>">>, <<"<<1004>>">> >>,
    << <<"<<1007>>">>, <<"<<1006>>">> >>, << <<"<<1008>>">>, <<"<<922>>">> >>,
    << <<"<<1009>>">>, <<"<<929>>">> >>, << <<"<<1010>>">>, <<"<<1017>>">> >>,
    << <<"<<1011>>">>, <<"<<895>>">> >>, << <<"<<1013>>">>, <<"<<917>>">> >>,
    << <<"<<1016>>">>, <<"<<1015>>">> >>, << <<"<<1019>>">>, <<"<<1018>>">> >>,
    << <<"<<1072>>">>, <<"<<1040>>">> >>, << <<"<<1073>>">>, <<"<<1041>>">> >>,
    << <<"<<1074>>">>, <<"<<1042>>">> >>, << <<"<<1075>>">>, <<"<<1043>>">> >>,
    << <<"<<1076>>">>, <<"<<1044>>">> >>, << <<"<<1077>>">>, <<"<<1045>>">> >>,
    << <<"<<1078>>">>, <<"<<1046>>">> >>, << <<"<<1079>>">>, <<"<<1047>>">> >>,
    << <<"<<1080>>">>, <<"<<1048>>">> >>, << <<"<<1081>>">>, <<"<<1049>>">> >>,
    << <<"<<1082>>">>, <<"<<1050>>">> >>, << <<"<<1083>>">>, <<"<<1051>>">> >>,
    << <<"<<1084>>">>, <<"<<1052>>">> >>, << <<"<<1085>>">>, <<"<<1053>>">> >>,
    << <<"<<1086>>">>, <<"<<1054>>">> >>, << <<"<<1087>>">>, <<"<<1055>>">> >>,
    << <<"<<1088>>">>, <<"<<1056>>">> >>, << <<"<<1089>>">>, <<"<<1057>>">> >>,
    << <<"<<1090>>">>, <<"<<1058>>">> >>, << <<"<<1091>>">>, <<"<<1059>>">> >>,
    << <<"<<1092>>">>, <<"<<1060>>">> >>, << <<"<<1093>>">>, <<"<<1061>>">> >>,
    << <<"<<1094>>">>, <<"<<1062>>">> >>, << <<"<<1095>>">>, <<"<<1063>>">> >>,
    << <<"<<1096>>">>, <<"<<1064>>">> >>, << <<"<<1097>>">>, <<"<<1065>>">> >>,
    << <<"<<1098>>">>, <<"<<1066>>">> >>, << <<"<<1099>>">>, <<"<<1067>>">> >>,
    << <<"<<1100>>">>, <<"<<1068>>">> >>, << <<"<<1101>>">>, <<"<<1069>>">> >>,
    << <<"<<1102>>">>, <<"<<1070>>">> >>, << <<"<<1103>>">>, <<"<<1071>>">> >>,
    << <<"<<1104>>">>, <<"<<1024>>">> >>, << <<"<<1105>>">>, <<"<<1025>>">> >>,
    << <<"<<1106>>">>, <<"<<1026>>">> >>, << <<"<<1107>>">>, <<"<<1027>>">> >>,
    << <<"<<1108>>">>, <<"<<1028>>">> >>, << <<"<<1109>>">>, <<"<<1029>>">> >>,
    << <<"<<1110>>">>, <<"<<1030>>">> >>, << <<"<<1111>>">>, <<"<<1031>>">> >>,
    << <<"<<1112>>">>, <<"<<1032>>">> >>, << <<"<<1113>>">>, <<"<<1033>>">> >>,
    << <<"<<1114>>">>, <<"<<1034>>">> >>, << <<"<<1115>>">>, <<"<<1035>>">> >>,
    << <<"<<1116>>">>, <<"<<1036>>">> >>, << <<"<<1117>>">>, <<"<<1037>>">> >>,
    << <<"<<1118>>">>, <<"<<1038>>">> >>, << <<"<<1119>>">>, <<"<<1039>>">> >>,
    << <<"<<1121>>">>, <<"<<1120>>">> >>, << <<"<<1123>>">>, <<"<<1122>>">> >>,
    << <<"<<1125>>">>, <<"<<1124>>">> >>, << <<"<<1127>>">>, <<"<<1126>>">> >>,
    << <<"<<1129>>">>, <<"<<1128>>">> >>, << <<"<<1131>>">>, <<"<<1130>>">> >>,
    << <<"<<1133>>">>, <<"<<1132>>">> >>, << <<"<<1135>>">>, <<"<<1134>>">> >>,
    << <<"<<1137>>">>, <<"<<1136>>">> >>, << <<"<<1139>>">>, <<"<<1138>>">> >>,
    << <<"<<1141>>">>, <<"<<1140>>">> >>, << <<"<<1143>>">>, <<"<<1142>>">> >>,
    << <<"<<1145>>">>, <<"<<1144>>">> >>, << <<"<<1147>>">>, <<"<<1146>>">> >>,
    << <<"<<1149>>">>, <<"<<1148>>">> >>, << <<"<<1151>>">>, <<"<<1150>>">> >>,
    << <<"<<1153>>">>, <<"<<1152>>">> >>, << <<"<<1163>>">>, <<"<<1162>>">> >>,
    << <<"<<1165>>">>, <<"<<1164>>">> >>, << <<"<<1167>>">>, <<"<<1166>>">> >>,
    << <<"<<1169>>">>, <<"<<1168>>">> >>, << <<"<<1171>>">>, <<"<<1170>>">> >>,
    << <<"<<1173>>">>, <<"<<1172>>">> >>, << <<"<<1175>>">>, <<"<<1174>>">> >>,
    << <<"<<1177>>">>, <<"<<1176>>">> >>, << <<"<<1179>>">>, <<"<<1178>>">> >>,
    << <<"<<1181>>">>, <<"<<1180>>">> >>, << <<"<<1183>>">>, <<"<<1182>>">> >>,
    << <<"<<1185>>">>, <<"<<1184>>">> >>, << <<"<<1187>>">>, <<"<<1186>>">> >>,
    << <<"<<1189>>">>, <<"<<1188>>">> >>, << <<"<<1191>>">>, <<"<<1190>>">> >>,
    << <<"<<1193>>">>, <<"<<1192>>">> >>, << <<"<<1195>>">>, <<"<<1194>>">> >>,
    << <<"<<1197>>">>, <<"<<1196>>">> >>, << <<"<<1199>>">>, <<"<<1198>>">> >>,
    << <<"<<1201>>">>, <<"<<1200>>">> >>, << <<"<<1203>>">>, <<"<<1202>>">> >>,
    << <<"<<1205>>">>, <<"<<1204>>">> >>, << <<"<<1207>>">>, <<"<<1206>>">> >>,
    << <<"<<1209>>">>, <<"<<1208>>">> >>, << <<"<<1211>>">>, <<"<<1210>>">> >>,
    << <<"<<1213>>">>, <<"<<1212>>">> >>, << <<"<<1215>>">>, <<"<<1214>>">> >>,
    << <<"<<1218>>">>, <<"<<1217>>">> >>, << <<"<<1220>>">>, <<"<<1219>>">> >>,
    << <<"<<1222>>">>, <<"<<1221>>">> >>, << <<"<<1224>>">>, <<"<<1223>>">> >>,
    << <<"<<1226>>">>, <<"<<1225>>">> >>, << <<"<<1228>>">>, <<"<<1227>>">> >>,
    << <<"<<1230>>">>, <<"<<1229>>">> >>, << <<"<<1231>>">>, <<"<<1216>>">> >>,
    << <<"<<1233>>">>, <<"<<1232>>">> >>, << <<"<<1235>>">>, <<"<<1234>>">> >>,
    << <<"<<1237>>">>, <<"<<1236>>">> >>, << <<"<<1239>>">>, <<"<<1238>>">> >>,
    << <<"<<1241>>">>, <<"<<1240>>">> >>, << <<"<<1243>>">>, <<"<<1242>>">> >>,
    << <<"<<1245>>">>, <<"<<1244>>">> >>, << <<"<<1247>>">>, <<"<<1246>>">> >>,
    << <<"<<1249>>">>, <<"<<1248>>">> >>, << <<"<<1251>>">>, <<"<<1250>>">> >>,
    << <<"<<1253>>">>, <<"<<1252>>">> >>, << <<"<<1255>>">>, <<"<<1254>>">> >>,
    << <<"<<1257>>">>, <<"<<1256>>">> >>, << <<"<<1259>>">>, <<"<<1258>>">> >>,
    << <<"<<1261>>">>, <<"<<1260>>">> >>, << <<"<<1263>>">>, <<"<<1262>>">> >>,
    << <<"<<1265>>">>, <<"<<1264>>">> >>, << <<"<<1267>>">>, <<"<<1266>>">> >>,
    << <<"<<1269>>">>, <<"<<1268>>">> >>, << <<"<<1271>>">>, <<"<<1270>>">> >>,
    << <<"<<1273>>">>, <<"<<1272>>">> >>, << <<"<<1275>>">>, <<"<<1274>>">> >>,
    << <<"<<1277>>">>, <<"<<1276>>">> >>, << <<"<<1279>>">>, <<"<<1278>>">> >>,
    << <<"<<1281>>">>, <<"<<1280>>">> >>, << <<"<<1283>>">>, <<"<<1282>>">> >>,
    << <<"<<1285>>">>, <<"<<1284>>">> >>, << <<"<<1287>>">>, <<"<<1286>>">> >>,
    << <<"<<1289>>">>, <<"<<1288>>">> >>, << <<"<<1291>>">>, <<"<<1290>>">> >>,
    << <<"<<1293>>">>, <<"<<1292>>">> >>, << <<"<<1295>>">>, <<"<<1294>>">> >>,
    << <<"<<1297>>">>, <<"<<1296>>">> >>, << <<"<<1299>>">>, <<"<<1298>>">> >>,
    << <<"<<1301>>">>, <<"<<1300>>">> >>, << <<"<<1303>>">>, <<"<<1302>>">> >>,
    << <<"<<1305>>">>, <<"<<1304>>">> >>, << <<"<<1307>>">>, <<"<<1306>>">> >>,
    << <<"<<1309>>">>, <<"<<1308>>">> >>, << <<"<<1311>>">>, <<"<<1310>>">> >>,
    << <<"<<1313>>">>, <<"<<1312>>">> >>, << <<"<<1315>>">>, <<"<<1314>>">> >>,
    << <<"<<1317>>">>, <<"<<1316>>">> >>, << <<"<<1319>>">>, <<"<<1318>>">> >>,
    << <<"<<1321>>">>, <<"<<1320>>">> >>, << <<"<<1323>>">>, <<"<<1322>>">> >>,
    << <<"<<1325>>">>, <<"<<1324>>">> >>, << <<"<<1327>>">>, <<"<<1326>>">> >>,
    << <<"<<1377>>">>, <<"<<1329>>">> >>, << <<"<<1378>>">>, <<"<<1330>>">> >>,
    << <<"<<1379>>">>, <<"<<1331>>">> >>, << <<"<<1380>>">>, <<"<<1332>>">> >>,
    << <<"<<1381>>">>, <<"<<1333>>">> >>, << <<"<<1382>>">>, <<"<<1334>>">> >>,
    << <<"<<1383>>">>, <<"<<1335>>">> >>, << <<"<<1384>>">>, <<"<<1336>>">> >>,
    << <<"<<1385>>">>, <<"<<1337>>">> >>, << <<"<<1386>>">>, <<"<<1338>>">> >>,
    << <<"<<1387>>">>, <<"<<1339>>">> >>, << <<"<<1388>>">>, <<"<<1340>>">> >>,
    << <<"<<1389>>">>, <<"<<1341>>">> >>, << <<"<<1390>>">>, <<"<<1342>>">> >>,
    << <<"<<1391>>">>, <<"<<1343>>">> >>, << <<"<<1392>>">>, <<"<<1344>>">> >>,
    << <<"<<1393>>">>, <<"<<1345>>">> >>, << <<"<<1394>>">>, <<"<<1346>>">> >>,
    << <<"<<1395>>">>, <<"<<1347>>">> >>, << <<"<<1396>>">>, <<"<<1348>>">> >>,
    << <<"<<1397>>">>, <<"<<1349>>">> >>, << <<"<<1398>>">>, <<"<<1350>>">> >>,
    << <<"<<1399>>">>, <<"<<1351>>">> >>, << <<"<<1400>>">>, <<"<<1352>>">> >>,
    << <<"<<1401>>">>, <<"<<1353>>">> >>, << <<"<<1402>>">>, <<"<<1354>>">> >>,
    << <<"<<1403>>">>, <<"<<1355>>">> >>, << <<"<<1404>>">>, <<"<<1356>>">> >>,
    << <<"<<1405>>">>, <<"<<1357>>">> >>, << <<"<<1406>>">>, <<"<<1358>>">> >>,
    << <<"<<1407>>">>, <<"<<1359>>">> >>, << <<"<<1408>>">>, <<"<<1360>>">> >>,
    << <<"<<1409>>">>, <<"<<1361>>">> >>, << <<"<<1410>>">>, <<"<<1362>>">> >>,
    << <<"<<1411>>">>, <<"<<1363>>">> >>, << <<"<<1412>>">>, <<"<<1364>>">> >>,
    << <<"<<1413>>">>, <<"<<1365>>">> >>, << <<"<<1414>>">>, <<"<<1366>>">> >>,
    << <<"<<1415>>">>, <<"<<1333>>", "<<1362>>">> >>, << <<"<<4304>>">>, <<"<<7312>>">> >>,
    << <<"<<4305>>">>, <<"<<7313>>">> >>, << <<"<<4306>>">>, <<"<<7314>>">> >>,
    << <<"<<4307>>">>, <<"<<7315>>">> >>, << <<"<<4308>>">>, <<"<<7316>>">> >>,
    << <<"<<4309>>">>, <<"<<7317>>">> >>, << <<"<<4310>>">>, <<"<<7318>>">> >>,
    << <<"<<4311>>">>, <<"<<7319>>">> >>, << <<"<<4312>>">>, <<"<<7320>>">> >>,
    << <<"<<4313>>">>, <<"<<7321>>">> >>, << <<"<<4314>>">>, <<"<<7322>>">> >>,
    << <<"<<4315>>">>, <<"<<7323>>">> >>, << <<"<<4316>>">>, <<"<<7324>>">> >>,
    << <<"<<4317>>">>, <<"<<7325>>">> >>, << <<"<<4318>>">>, <<"<<7326>>">> >>,
    << <<"<<4319>>">>, <<"<<7327>>">> >>, << <<"<<4320>>">>, <<"<<7328>>">> >>,
    << <<"<<4321>>">>, <<"<<7329>>">> >>, << <<"<<4322>>">>, <<"<<7330>>">> >>,
    << <<"<<4323>>">>, <<"<<7331>>">> >>, << <<"<<4324>>">>, <<"<<7332>>">> >>,
    << <<"<<4325>>">>, <<"<<7333>>">> >>, << <<"<<4326>>">>, <<"<<7334>>">> >>,
    << <<"<<4327>>">>, <<"<<7335>>">> >>, << <<"<<4328>>">>, <<"<<7336>>">> >>,
    << <<"<<4329>>">>, <<"<<7337>>">> >>, << <<"<<4330>>">>, <<"<<7338>>">> >>,
    << <<"<<4331>>">>, <<"<<7339>>">> >>, << <<"<<4332>>">>, <<"<<7340>>">> >>,
    << <<"<<4333>>">>, <<"<<7341>>">> >>, << <<"<<4334>>">>, <<"<<7342>>">> >>,
    << <<"<<4335>>">>, <<"<<7343>>">> >>, << <<"<<4336>>">>, <<"<<7344>>">> >>,
    << <<"<<4337>>">>, <<"<<7345>>">> >>, << <<"<<4338>>">>, <<"<<7346>>">> >>,
    << <<"<<4339>>">>, <<"<<7347>>">> >>, << <<"<<4340>>">>, <<"<<7348>>">> >>,
    << <<"<<4341>>">>, <<"<<7349>>">> >>, << <<"<<4342>>">>, <<"<<7350>>">> >>,
    << <<"<<4343>>">>, <<"<<7351>>">> >>, << <<"<<4344>>">>, <<"<<7352>>">> >>,
    << <<"<<4345>>">>, <<"<<7353>>">> >>, << <<"<<4346>>">>, <<"<<7354>>">> >>,
    << <<"<<4349>>">>, <<"<<7357>>">> >>, << <<"<<4350>>">>, <<"<<7358>>">> >>,
    << <<"<<4351>>">>, <<"<<7359>>">> >>, << <<"<<5112>>">>, <<"<<5104>>">> >>,
    << <<"<<5113>>">>, <<"<<5105>>">> >>, << <<"<<5114>>">>, <<"<<5106>>">> >>,
    << <<"<<5115>>">>, <<"<<5107>>">> >>, << <<"<<5116>>">>, <<"<<5108>>">> >>,
    << <<"<<5117>>">>, <<"<<5109>>">> >>, << <<"<<7296>>">>, <<"<<1042>>">> >>,
    << <<"<<7297>>">>, <<"<<1044>>">> >>, << <<"<<7298>>">>, <<"<<1054>>">> >>,
    << <<"<<7299>>">>, <<"<<1057>>">> >>, << <<"<<7300>>">>, <<"<<1058>>">> >>,
    << <<"<<7301>>">>, <<"<<1058>>">> >>, << <<"<<7302>>">>, <<"<<1066>>">> >>,
    << <<"<<7303>>">>, <<"<<1122>>">> >>, << <<"<<7304>>">>, <<"<<42570>>">> >>,
    << <<"<<7306>>">>, <<"<<7305>>">> >>, << <<"<<7545>>">>, <<"<<42877>>">> >>,
    << <<"<<7549>>">>, <<"<<11363>>">> >>, << <<"<<7566>>">>, <<"<<42950>>">> >>,
    << <<"<<7681>>">>, <<"<<7680>>">> >>, << <<"<<7683>>">>, <<"<<7682>>">> >>,
    << <<"<<7685>>">>, <<"<<7684>>">> >>, << <<"<<7687>>">>, <<"<<7686>>">> >>,
    << <<"<<7689>>">>, <<"<<7688>>">> >>, << <<"<<7691>>">>, <<"<<7690>>">> >>,
    << <<"<<7693>>">>, <<"<<7692>>">> >>, << <<"<<7695>>">>, <<"<<7694>>">> >>,
    << <<"<<7697>>">>, <<"<<7696>>">> >>, << <<"<<7699>>">>, <<"<<7698>>">> >>,
    << <<"<<7701>>">>, <<"<<7700>>">> >>, << <<"<<7703>>">>, <<"<<7702>>">> >>,
    << <<"<<7705>>">>, <<"<<7704>>">> >>, << <<"<<7707>>">>, <<"<<7706>>">> >>,
    << <<"<<7709>>">>, <<"<<7708>>">> >>, << <<"<<7711>>">>, <<"<<7710>>">> >>,
    << <<"<<7713>>">>, <<"<<7712>>">> >>, << <<"<<7715>>">>, <<"<<7714>>">> >>,
    << <<"<<7717>>">>, <<"<<7716>>">> >>, << <<"<<7719>>">>, <<"<<7718>>">> >>,
    << <<"<<7721>>">>, <<"<<7720>>">> >>, << <<"<<7723>>">>, <<"<<7722>>">> >>,
    << <<"<<7725>>">>, <<"<<7724>>">> >>, << <<"<<7727>>">>, <<"<<7726>>">> >>,
    << <<"<<7729>>">>, <<"<<7728>>">> >>, << <<"<<7731>>">>, <<"<<7730>>">> >>,
    << <<"<<7733>>">>, <<"<<7732>>">> >>, << <<"<<7735>>">>, <<"<<7734>>">> >>,
    << <<"<<7737>>">>, <<"<<7736>>">> >>, << <<"<<7739>>">>, <<"<<7738>>">> >>,
    << <<"<<7741>>">>, <<"<<7740>>">> >>, << <<"<<7743>>">>, <<"<<7742>>">> >>,
    << <<"<<7745>>">>, <<"<<7744>>">> >>, << <<"<<7747>>">>, <<"<<7746>>">> >>,
    << <<"<<7749>>">>, <<"<<7748>>">> >>, << <<"<<7751>>">>, <<"<<7750>>">> >>,
    << <<"<<7753>>">>, <<"<<7752>>">> >>, << <<"<<7755>>">>, <<"<<7754>>">> >>,
    << <<"<<7757>>">>, <<"<<7756>>">> >>, << <<"<<7759>>">>, <<"<<7758>>">> >>,
    << <<"<<7761>>">>, <<"<<7760>>">> >>, << <<"<<7763>>">>, <<"<<7762>>">> >>,
    << <<"<<7765>>">>, <<"<<7764>>">> >>, << <<"<<7767>>">>, <<"<<7766>>">> >>,
    << <<"<<7769>>">>, <<"<<7768>>">> >>, << <<"<<7771>>">>, <<"<<7770>>">> >>,
    << <<"<<7773>>">>, <<"<<7772>>">> >>, << <<"<<7775>>">>, <<"<<7774>>">> >>,
    << <<"<<7777>>">>, <<"<<7776>>">> >>, << <<"<<7779>>">>, <<"<<7778>>">> >>,
    << <<"<<7781>>">>, <<"<<7780>>">> >>, << <<"<<7783>>">>, <<"<<7782>>">> >>,
    << <<"<<7785>>">>, <<"<<7784>>">> >>, << <<"<<7787>>">>, <<"<<7786>>">> >>,
    << <<"<<7789>>">>, <<"<<7788>>">> >>, << <<"<<7791>>">>, <<"<<7790>>">> >>,
    << <<"<<7793>>">>, <<"<<7792>>">> >>, << <<"<<7795>>">>, <<"<<7794>>">> >>,
    << <<"<<7797>>">>, <<"<<7796>>">> >>, << <<"<<7799>>">>, <<"<<7798>>">> >>,
    << <<"<<7801>>">>, <<"<<7800>>">> >>, << <<"<<7803>>">>, <<"<<7802>>">> >>,
    << <<"<<7805>>">>, <<"<<7804>>">> >>, << <<"<<7807>>">>, <<"<<7806>>">> >>,
    << <<"<<7809>>">>, <<"<<7808>>">> >>, << <<"<<7811>>">>, <<"<<7810>>">> >>,
    << <<"<<7813>>">>, <<"<<7812>>">> >>, << <<"<<7815>>">>, <<"<<7814>>">> >>,
    << <<"<<7817>>">>, <<"<<7816>>">> >>, << <<"<<7819>>">>, <<"<<7818>>">> >>,
    << <<"<<7821>>">>, <<"<<7820>>">> >>, << <<"<<7823>>">>, <<"<<7822>>">> >>,
    << <<"<<7825>>">>, <<"<<7824>>">> >>, << <<"<<7827>>">>, <<"<<7826>>">> >>,
    << <<"<<7829>>">>, <<"<<7828>>">> >>, << <<"<<7830>>">>, <<"H", "<<817>>">> >>,
    << <<"<<7831>>">>, <<"T", "<<776>>">> >>, << <<"<<7832>>">>, <<"W", "<<778>>">> >>,
    << <<"<<7833>>">>, <<"Y", "<<778>>">> >>, << <<"<<7834>>">>, <<"A", "<<702>>">> >>,
    << <<"<<7835>>">>, <<"<<7776>>">> >>, << <<"<<7841>>">>, <<"<<7840>>">> >>,
    << <<"<<7843>>">>, <<"<<7842>>">> >>, << <<"<<7845>>">>, <<"<<7844>>">> >>,
    << <<"<<7847>>">>, <<"<<7846>>">> >>, << <<"<<7849>>">>, <<"<<7848>>">> >>,
    << <<"<<7851>>">>, <<"<<7850>>">> >>, << <<"<<7853>>">>, <<"<<7852>>">> >>,
    << <<"<<7855>>">>, <<"<<7854>>">> >>, << <<"<<7857>>">>, <<"<<7856>>">> >>,
    << <<"<<7859>>">>, <<"<<7858>>">> >>, << <<"<<7861>>">>, <<"<<7860>>">> >>,
    << <<"<<7863>>">>, <<"<<7862>>">> >>, << <<"<<7865>>">>, <<"<<7864>>">> >>,
    << <<"<<7867>>">>, <<"<<7866>>">> >>, << <<"<<7869>>">>, <<"<<7868>>">> >>,
    << <<"<<7871>>">>, <<"<<7870>>">> >>, << <<"<<7873>>">>, <<"<<7872>>">> >>,
    << <<"<<7875>>">>, <<"<<7874>>">> >>, << <<"<<7877>>">>, <<"<<7876>>">> >>,
    << <<"<<7879>>">>, <<"<<7878>>">> >>, << <<"<<7881>>">>, <<"<<7880>>">> >>,
    << <<"<<7883>>">>, <<"<<7882>>">> >>, << <<"<<7885>>">>, <<"<<7884>>">> >>,
    << <<"<<7887>>">>, <<"<<7886>>">> >>, << <<"<<7889>>">>, <<"<<7888>>">> >>,
    << <<"<<7891>>">>, <<"<<7890>>">> >>, << <<"<<7893>>">>, <<"<<7892>>">> >>,
    << <<"<<7895>>">>, <<"<<7894>>">> >>, << <<"<<7897>>">>, <<"<<7896>>">> >>,
    << <<"<<7899>>">>, <<"<<7898>>">> >>, << <<"<<7901>>">>, <<"<<7900>>">> >>,
    << <<"<<7903>>">>, <<"<<7902>>">> >>, << <<"<<7905>>">>, <<"<<7904>>">> >>,
    << <<"<<7907>>">>, <<"<<7906>>">> >>, << <<"<<7909>>">>, <<"<<7908>>">> >>,
    << <<"<<7911>>">>, <<"<<7910>>">> >>, << <<"<<7913>>">>, <<"<<7912>>">> >>,
    << <<"<<7915>>">>, <<"<<7914>>">> >>, << <<"<<7917>>">>, <<"<<7916>>">> >>,
    << <<"<<7919>>">>, <<"<<7918>>">> >>, << <<"<<7921>>">>, <<"<<7920>>">> >>,
    << <<"<<7923>>">>, <<"<<7922>>">> >>, << <<"<<7925>>">>, <<"<<7924>>">> >>,
    << <<"<<7927>>">>, <<"<<7926>>">> >>, << <<"<<7929>>">>, <<"<<7928>>">> >>,
    << <<"<<7931>>">>, <<"<<7930>>">> >>, << <<"<<7933>>">>, <<"<<7932>>">> >>,
    << <<"<<7935>>">>, <<"<<7934>>">> >>, << <<"<<7936>>">>, <<"<<7944>>">> >>,
    << <<"<<7937>>">>, <<"<<7945>>">> >>, << <<"<<7938>>">>, <<"<<7946>>">> >>,
    << <<"<<7939>>">>, <<"<<7947>>">> >>, << <<"<<7940>>">>, <<"<<7948>>">> >>,
    << <<"<<7941>>">>, <<"<<7949>>">> >>, << <<"<<7942>>">>, <<"<<7950>>">> >>,
    << <<"<<7943>>">>, <<"<<7951>>">> >>, << <<"<<7952>>">>, <<"<<7960>>">> >>,
    << <<"<<7953>>">>, <<"<<7961>>">> >>, << <<"<<7954>>">>, <<"<<7962>>">> >>,
    << <<"<<7955>>">>, <<"<<7963>>">> >>, << <<"<<7956>>">>, <<"<<7964>>">> >>,
    << <<"<<7957>>">>, <<"<<7965>>">> >>, << <<"<<7968>>">>, <<"<<7976>>">> >>,
    << <<"<<7969>>">>, <<"<<7977>>">> >>, << <<"<<7970>>">>, <<"<<7978>>">> >>,
    << <<"<<7971>>">>, <<"<<7979>>">> >>, << <<"<<7972>>">>, <<"<<7980>>">> >>,
    << <<"<<7973>>">>, <<"<<7981>>">> >>, << <<"<<7974>>">>, <<"<<7982>>">> >>,
    << <<"<<7975>>">>, <<"<<7983>>">> >>, << <<"<<7984>>">>, <<"<<7992>>">> >>,
    << <<"<<7985>>">>, <<"<<7993>>">> >>, << <<"<<7986>>">>, <<"<<7994>>">> >>,
    << <<"<<7987>>">>, <<"<<7995>>">> >>, << <<"<<7988>>">>, <<"<<7996>>">> >>,
    << <<"<<7989>>">>, <<"<<7997>>">> >>, << <<"<<7990>>">>, <<"<<7998>>">> >>,
    << <<"<<7991>>">>, <<"<<7999>>">> >>, << <<"<<8000>>">>, <<"<<8008>>">> >>,
    << <<"<<8001>>">>, <<"<<8009>>">> >>, << <<"<<8002>>">>, <<"<<8010>>">> >>,
    << <<"<<8003>>">>, <<"<<8011>>">> >>, << <<"<<8004>>">>, <<"<<8012>>">> >>,
    << <<"<<8005>>">>, <<"<<8013>>">> >>, << <<"<<8016>>">>, <<"<<933>>", "<<787>>">> >>,
    << <<"<<8017>>">>, <<"<<8025>>">> >>,
    << <<"<<8018>>">>, <<"<<933>>", "<<787>>", "<<768>>">> >>,
    << <<"<<8019>>">>, <<"<<8027>>">> >>,
    << <<"<<8020>>">>, <<"<<933>>", "<<787>>", "<<769>>">> >>,
    << <<"<<8021>>">>, <<"<<8029>>">> >>,
    << <<"<<8022>>">>, <<"<<933>>", "<<787>>", "<<834>>">> >>,
    << <<"<<8023>>">>, <<"<<8031>>">> >>, << <<"<<8032>>">>, <<"<<8040>>">> >>,
    << <<"<<8033>>">>, <<"<<8041>>">> >>, << <<"<<8034>>">>, <<"<<8042>>">> >>,
    << <<"<<8035>>">>, <<"<<8043>>">> >>, << <<"<<8036>>">>, <<"<<8044>>">> >>,
    << <<"<<8037>>">>, <<"<<8045>>">> >>, << <<"<<8038>>">>, <<"<<8046>>">> >>,
    << <<"<<8039>>">>, <<"<<8047>>">> >>, << <<"<<8048>>">>, <<"<<8122>>">> >>,
    << <<"<<8049>>">>, <<"<<8123>>">> >>, << <<"<<8050>>">>, <<"<<8136>>">> >>,
    << <<"<<8051>>">>, <<"<<8137>>">> >>, << <<"<<8052>>">>, <<"<<8138>>">> >>,
    << <<"<<8053>>">>, <<"<<8139>>">> >>, << <<"<<8054>>">>, <<"<<8154>>">> >>,
    << <<"<<8055>>">>, <<"<<8155>>">> >>, << <<"<<8056>>">>, <<"<<8184>>">> >>,
    << <<"<<8057>>">>, <<"<<8185>>">> >>, << <<"<<8058>>">>, <<"<<8170>>">> >>,
    << <<"<<8059>>">>, <<"<<8171>>">> >>, << <<"<<8060>>">>, <<"<<8186>>">> >>,
    << <<"<<8061>>">>, <<"<<8187>>">> >>, << <<"<<8064>>">>, <<"<<7944>>", "<<921>>">> >>,
    << <<"<<8065>>">>, <<"<<7945>>", "<<921>>">> >>,
    << <<"<<8066>>">>, <<"<<7946>>", "<<921>>">> >>,
    << <<"<<8067>>">>, <<"<<7947>>", "<<921>>">> >>,
    << <<"<<8068>>">>, <<"<<7948>>", "<<921>>">> >>,
    << <<"<<8069>>">>, <<"<<7949>>", "<<921>>">> >>,
    << <<"<<8070>>">>, <<"<<7950>>", "<<921>>">> >>,
    << <<"<<8071>>">>, <<"<<7951>>", "<<921>>">> >>,
    << <<"<<8072>>">>, <<"<<7944>>", "<<921>>">> >>,
    << <<"<<8073>>">>, <<"<<7945>>", "<<921>>">> >>,
    << <<"<<8074>>">>, <<"<<7946>>", "<<921>>">> >>,
    << <<"<<8075>>">>, <<"<<7947>>", "<<921>>">> >>,
    << <<"<<8076>>">>, <<"<<7948>>", "<<921>>">> >>,
    << <<"<<8077>>">>, <<"<<7949>>", "<<921>>">> >>,
    << <<"<<8078>>">>, <<"<<7950>>", "<<921>>">> >>,
    << <<"<<8079>>">>, <<"<<7951>>", "<<921>>">> >>,
    << <<"<<8080>>">>, <<"<<7976>>", "<<921>>">> >>,
    << <<"<<8081>>">>, <<"<<7977>>", "<<921>>">> >>,
    << <<"<<8082>>">>, <<"<<7978>>", "<<921>>">> >>,
    << <<"<<8083>>">>, <<"<<7979>>", "<<921>>">> >>,
    << <<"<<8084>>">>, <<"<<7980>>", "<<921>>">> >>,
    << <<"<<8085>>">>, <<"<<7981>>", "<<921>>">> >>,
    << <<"<<8086>>">>, <<"<<7982>>", "<<921>>">> >>,
    << <<"<<8087>>">>, <<"<<7983>>", "<<921>>">> >>,
    << <<"<<8088>>">>, <<"<<7976>>", "<<921>>">> >>,
    << <<"<<8089>>">>, <<"<<7977>>", "<<921>>">> >>,
    << <<"<<8090>>">>, <<"<<7978>>", "<<921>>">> >>,
    << <<"<<8091>>">>, <<"<<7979>>", "<<921>>">> >>,
    << <<"<<8092>>">>, <<"<<7980>>", "<<921>>">> >>,
    << <<"<<8093>>">>, <<"<<7981>>", "<<921>>">> >>,
    << <<"<<8094>>">>, <<"<<7982>>", "<<921>>">> >>,
    << <<"<<8095>>">>, <<"<<7983>>", "<<921>>">> >>,
    << <<"<<8096>>">>, <<"<<8040>>", "<<921>>">> >>,
    << <<"<<8097>>">>, <<"<<8041>>", "<<921>>">> >>,
    << <<"<<8098>>">>, <<"<<8042>>", "<<921>>">> >>,
    << <<"<<8099>>">>, <<"<<8043>>", "<<921>>">> >>,
    << <<"<<8100>>">>, <<"<<8044>>", "<<921>>">> >>,
    << <<"<<8101>>">>, <<"<<8045>>", "<<921>>">> >>,
    << <<"<<8102>>">>, <<"<<8046>>", "<<921>>">> >>,
    << <<"<<8103>>">>, <<"<<8047>>", "<<921>>">> >>,
    << <<"<<8104>>">>, <<"<<8040>>", "<<921>>">> >>,
    << <<"<<8105>>">>, <<"<<8041>>", "<<921>>">> >>,
    << <<"<<8106>>">>, <<"<<8042>>", "<<921>>">> >>,
    << <<"<<8107>>">>, <<"<<8043>>", "<<921>>">> >>,
    << <<"<<8108>>">>, <<"<<8044>>", "<<921>>">> >>,
    << <<"<<8109>>">>, <<"<<8045>>", "<<921>>">> >>,
    << <<"<<8110>>">>, <<"<<8046>>", "<<921>>">> >>,
    << <<"<<8111>>">>, <<"<<8047>>", "<<921>>">> >>, << <<"<<8112>>">>, <<"<<8120>>">> >>,
    << <<"<<8113>>">>, <<"<<8121>>">> >>, << <<"<<8114>>">>, <<"<<8122>>", "<<921>>">> >>,
    << <<"<<8115>>">>, <<"<<913>>", "<<921>>">> >>,
    << <<"<<8116>>">>, <<"<<902>>", "<<921>>">> >>,
    << <<"<<8118>>">>, <<"<<913>>", "<<834>>">> >>,
    << <<"<<8119>>">>, <<"<<913>>", "<<834>>", "<<921>>">> >>,
    << <<"<<8124>>">>, <<"<<913>>", "<<921>>">> >>, << <<"<<8126>>">>, <<"<<921>>">> >>,
    << <<"<<8130>>">>, <<"<<8138>>", "<<921>>">> >>,
    << <<"<<8131>>">>, <<"<<919>>", "<<921>>">> >>,
    << <<"<<8132>>">>, <<"<<905>>", "<<921>>">> >>,
    << <<"<<8134>>">>, <<"<<919>>", "<<834>>">> >>,
    << <<"<<8135>>">>, <<"<<919>>", "<<834>>", "<<921>>">> >>,
    << <<"<<8140>>">>, <<"<<919>>", "<<921>>">> >>, << <<"<<8144>>">>, <<"<<8152>>">> >>,
    << <<"<<8145>>">>, <<"<<8153>>">> >>,
    << <<"<<8146>>">>, <<"<<921>>", "<<776>>", "<<768>>">> >>,
    << <<"<<8147>>">>, <<"<<921>>", "<<776>>", "<<769>>">> >>,
    << <<"<<8150>>">>, <<"<<921>>", "<<834>>">> >>,
    << <<"<<8151>>">>, <<"<<921>>", "<<776>>", "<<834>>">> >>,
    << <<"<<8160>>">>, <<"<<8168>>">> >>, << <<"<<8161>>">>, <<"<<8169>>">> >>,
    << <<"<<8162>>">>, <<"<<933>>", "<<776>>", "<<768>>">> >>,
    << <<"<<8163>>">>, <<"<<933>>", "<<776>>", "<<769>>">> >>,
    << <<"<<8164>>">>, <<"<<929>>", "<<787>>">> >>, << <<"<<8165>>">>, <<"<<8172>>">> >>,
    << <<"<<8166>>">>, <<"<<933>>", "<<834>>">> >>,
    << <<"<<8167>>">>, <<"<<933>>", "<<776>>", "<<834>>">> >>,
    << <<"<<8178>>">>, <<"<<8186>>", "<<921>>">> >>,
    << <<"<<8179>>">>, <<"<<937>>", "<<921>>">> >>,
    << <<"<<8180>>">>, <<"<<911>>", "<<921>>">> >>,
    << <<"<<8182>>">>, <<"<<937>>", "<<834>>">> >>,
    << <<"<<8183>>">>, <<"<<937>>", "<<834>>", "<<921>>">> >>,
    << <<"<<8188>>">>, <<"<<937>>", "<<921>>">> >>, << <<"<<8526>>">>, <<"<<8498>>">> >>,
    << <<"<<8560>>">>, <<"<<8544>>">> >>, << <<"<<8561>>">>, <<"<<8545>>">> >>,
    << <<"<<8562>>">>, <<"<<8546>>">> >>, << <<"<<8563>>">>, <<"<<8547>>">> >>,
    << <<"<<8564>>">>, <<"<<8548>>">> >>, << <<"<<8565>>">>, <<"<<8549>>">> >>,
    << <<"<<8566>>">>, <<"<<8550>>">> >>, << <<"<<8567>>">>, <<"<<8551>>">> >>,
    << <<"<<8568>>">>, <<"<<8552>>">> >>, << <<"<<8569>>">>, <<"<<8553>>">> >>,
    << <<"<<8570>>">>, <<"<<8554>>">> >>, << <<"<<8571>>">>, <<"<<8555>>">> >>,
    << <<"<<8572>>">>, <<"<<8556>>">> >>, << <<"<<8573>>">>, <<"<<8557>>">> >>,
    << <<"<<8574>>">>, <<"<<8558>>">> >>, << <<"<<8575>>">>, <<"<<8559>>">> >>,
    << <<"<<8580>>">>, <<"<<8579>>">> >>, << <<"<<9424>>">>, <<"<<9398>>">> >>,
    << <<"<<9425>>">>, <<"<<9399>>">> >>, << <<"<<9426>>">>, <<"<<9400>>">> >>,
    << <<"<<9427>>">>, <<"<<9401>>">> >>, << <<"<<9428>>">>, <<"<<9402>>">> >>,
    << <<"<<9429>>">>, <<"<<9403>>">> >>, << <<"<<9430>>">>, <<"<<9404>>">> >>,
    << <<"<<9431>>">>, <<"<<9405>>">> >>, << <<"<<9432>>">>, <<"<<9406>>">> >>,
    << <<"<<9433>>">>, <<"<<9407>>">> >>, << <<"<<9434>>">>, <<"<<9408>>">> >>,
    << <<"<<9435>>">>, <<"<<9409>>">> >>, << <<"<<9436>>">>, <<"<<9410>>">> >>,
    << <<"<<9437>>">>, <<"<<9411>>">> >>, << <<"<<9438>>">>, <<"<<9412>>">> >>,
    << <<"<<9439>>">>, <<"<<9413>>">> >>, << <<"<<9440>>">>, <<"<<9414>>">> >>,
    << <<"<<9441>>">>, <<"<<9415>>">> >>, << <<"<<9442>>">>, <<"<<9416>>">> >>,
    << <<"<<9443>>">>, <<"<<9417>>">> >>, << <<"<<9444>>">>, <<"<<9418>>">> >>,
    << <<"<<9445>>">>, <<"<<9419>>">> >>, << <<"<<9446>>">>, <<"<<9420>>">> >>,
    << <<"<<9447>>">>, <<"<<9421>>">> >>, << <<"<<9448>>">>, <<"<<9422>>">> >>,
    << <<"<<9449>>">>, <<"<<9423>>">> >>, << <<"<<11312>>">>, <<"<<11264>>">> >>,
    << <<"<<11313>>">>, <<"<<11265>>">> >>, << <<"<<11314>>">>, <<"<<11266>>">> >>,
    << <<"<<11315>>">>, <<"<<11267>>">> >>, << <<"<<11316>>">>, <<"<<11268>>">> >>,
    << <<"<<11317>>">>, <<"<<11269>>">> >>, << <<"<<11318>>">>, <<"<<11270>>">> >>,
    << <<"<<11319>>">>, <<"<<11271>>">> >>, << <<"<<11320>>">>, <<"<<11272>>">> >>,
    << <<"<<11321>>">>, <<"<<11273>>">> >>, << <<"<<11322>>">>, <<"<<11274>>">> >>,
    << <<"<<11323>>">>, <<"<<11275>>">> >>, << <<"<<11324>>">>, <<"<<11276>>">> >>,
    << <<"<<11325>>">>, <<"<<11277>>">> >>, << <<"<<11326>>">>, <<"<<11278>>">> >>,
    << <<"<<11327>>">>, <<"<<11279>>">> >>, << <<"<<11328>>">>, <<"<<11280>>">> >>,
    << <<"<<11329>>">>, <<"<<11281>>">> >>, << <<"<<11330>>">>, <<"<<11282>>">> >>,
    << <<"<<11331>>">>, <<"<<11283>>">> >>, << <<"<<11332>>">>, <<"<<11284>>">> >>,
    << <<"<<11333>>">>, <<"<<11285>>">> >>, << <<"<<11334>>">>, <<"<<11286>>">> >>,
    << <<"<<11335>>">>, <<"<<11287>>">> >>, << <<"<<11336>>">>, <<"<<11288>>">> >>,
    << <<"<<11337>>">>, <<"<<11289>>">> >>, << <<"<<11338>>">>, <<"<<11290>>">> >>,
    << <<"<<11339>>">>, <<"<<11291>>">> >>, << <<"<<11340>>">>, <<"<<11292>>">> >>,
    << <<"<<11341>>">>, <<"<<11293>>">> >>, << <<"<<11342>>">>, <<"<<11294>>">> >>,
    << <<"<<11343>>">>, <<"<<11295>>">> >>, << <<"<<11344>>">>, <<"<<11296>>">> >>,
    << <<"<<11345>>">>, <<"<<11297>>">> >>, << <<"<<11346>>">>, <<"<<11298>>">> >>,
    << <<"<<11347>>">>, <<"<<11299>>">> >>, << <<"<<11348>>">>, <<"<<11300>>">> >>,
    << <<"<<11349>>">>, <<"<<11301>>">> >>, << <<"<<11350>>">>, <<"<<11302>>">> >>,
    << <<"<<11351>>">>, <<"<<11303>>">> >>, << <<"<<11352>>">>, <<"<<11304>>">> >>,
    << <<"<<11353>>">>, <<"<<11305>>">> >>, << <<"<<11354>>">>, <<"<<11306>>">> >>,
    << <<"<<11355>>">>, <<"<<11307>>">> >>, << <<"<<11356>>">>, <<"<<11308>>">> >>,
    << <<"<<11357>>">>, <<"<<11309>>">> >>, << <<"<<11358>>">>, <<"<<11310>>">> >>,
    << <<"<<11359>>">>, <<"<<11311>>">> >>, << <<"<<11361>>">>, <<"<<11360>>">> >>,
    << <<"<<11365>>">>, <<"<<570>>">> >>, << <<"<<11366>>">>, <<"<<574>>">> >>,
    << <<"<<11368>>">>, <<"<<11367>>">> >>, << <<"<<11370>>">>, <<"<<11369>>">> >>,
    << <<"<<11372>>">>, <<"<<11371>>">> >>, << <<"<<11379>>">>, <<"<<11378>>">> >>,
    << <<"<<11382>>">>, <<"<<11381>>">> >>, << <<"<<11393>>">>, <<"<<11392>>">> >>,
    << <<"<<11395>>">>, <<"<<11394>>">> >>, << <<"<<11397>>">>, <<"<<11396>>">> >>,
    << <<"<<11399>>">>, <<"<<11398>>">> >>, << <<"<<11401>>">>, <<"<<11400>>">> >>,
    << <<"<<11403>>">>, <<"<<11402>>">> >>, << <<"<<11405>>">>, <<"<<11404>>">> >>,
    << <<"<<11407>>">>, <<"<<11406>>">> >>, << <<"<<11409>>">>, <<"<<11408>>">> >>,
    << <<"<<11411>>">>, <<"<<11410>>">> >>, << <<"<<11413>>">>, <<"<<11412>>">> >>,
    << <<"<<11415>>">>, <<"<<11414>>">> >>, << <<"<<11417>>">>, <<"<<11416>>">> >>,
    << <<"<<11419>>">>, <<"<<11418>>">> >>, << <<"<<11421>>">>, <<"<<11420>>">> >>,
    << <<"<<11423>>">>, <<"<<11422>>">> >>, << <<"<<11425>>">>, <<"<<11424>>">> >>,
    << <<"<<11427>>">>, <<"<<11426>>">> >>, << <<"<<11429>>">>, <<"<<11428>>">> >>,
    << <<"<<11431>>">>, <<"<<11430>>">> >>, << <<"<<11433>>">>, <<"<<11432>>">> >>,
    << <<"<<11435>>">>, <<"<<11434>>">> >>, << <<"<<11437>>">>, <<"<<11436>>">> >>,
    << <<"<<11439>>">>, <<"<<11438>>">> >>, << <<"<<11441>>">>, <<"<<11440>>">> >>,
    << <<"<<11443>>">>, <<"<<11442>>">> >>, << <<"<<11445>>">>, <<"<<11444>>">> >>,
    << <<"<<11447>>">>, <<"<<11446>>">> >>, << <<"<<11449>>">>, <<"<<11448>>">> >>,
    << <<"<<11451>>">>, <<"<<11450>>">> >>, << <<"<<11453>>">>, <<"<<11452>>">> >>,
    << <<"<<11455>>">>, <<"<<11454>>">> >>, << <<"<<11457>>">>, <<"<<11456>>">> >>,
    << <<"<<11459>>">>, <<"<<11458>>">> >>, << <<"<<11461>>">>, <<"<<11460>>">> >>,
    << <<"<<11463>>">>, <<"<<11462>>">> >>, << <<"<<11465>>">>, <<"<<11464>>">> >>,
    << <<"<<11467>>">>, <<"<<11466>>">> >>, << <<"<<11469>>">>, <<"<<11468>>">> >>,
    << <<"<<11471>>">>, <<"<<11470>>">> >>, << <<"<<11473>>">>, <<"<<11472>>">> >>,
    << <<"<<11475>>">>, <<"<<11474>>">> >>, << <<"<<11477>>">>, <<"<<11476>>">> >>,
    << <<"<<11479>>">>, <<"<<11478>>">> >>, << <<"<<11481>>">>, <<"<<11480>>">> >>,
    << <<"<<11483>>">>, <<"<<11482>>">> >>, << <<"<<11485>>">>, <<"<<11484>>">> >>,
    << <<"<<11487>>">>, <<"<<11486>>">> >>, << <<"<<11489>>">>, <<"<<11488>>">> >>,
    << <<"<<11491>>">>, <<"<<11490>>">> >>, << <<"<<11500>>">>, <<"<<11499>>">> >>,
    << <<"<<11502>>">>, <<"<<11501>>">> >>, << <<"<<11507>>">>, <<"<<11506>>">> >>,
    << <<"<<11520>>">>, <<"<<4256>>">> >>, << <<"<<11521>>">>, <<"<<4257>>">> >>,
    << <<"<<11522>>">>, <<"<<4258>>">> >>, << <<"<<11523>>">>, <<"<<4259>>">> >>,
    << <<"<<11524>>">>, <<"<<4260>>">> >>, << <<"<<11525>>">>, <<"<<4261>>">> >>,
    << <<"<<11526>>">>, <<"<<4262>>">> >>, << <<"<<11527>>">>, <<"<<4263>>">> >>,
    << <<"<<11528>>">>, <<"<<4264>>">> >>, << <<"<<11529>>">>, <<"<<4265>>">> >>,
    << <<"<<11530>>">>, <<"<<4266>>">> >>, << <<"<<11531>>">>, <<"<<4267>>">> >>,
    << <<"<<11532>>">>, <<"<<4268>>">> >>, << <<"<<11533>>">>, <<"<<4269>>">> >>,
    << <<"<<11534>>">>, <<"<<4270>>">> >>, << <<"<<11535>>">>, <<"<<4271>>">> >>,
    << <<"<<11536>>">>, <<"<<4272>>">> >>, << <<"<<11537>>">>, <<"<<4273>>">> >>,
    << <<"<<11538>>">>, <<"<<4274>>">> >>, << <<"<<11539>>">>, <<"<<4275>>">> >>,
    << <<"<<11540>>">>, <<"<<4276>>">> >>, << <<"<<11541>>">>, <<"<<4277>>">> >>,
    << <<"<<11542>>">>, <<"<<4278>>">> >>, << <<"<<11543>>">>, <<"<<4279>>">> >>,
    << <<"<<11544>>">>, <<"<<4280>>">> >>, << <<"<<11545>>">>, <<"<<4281>>">> >>,
    << <<"<<11546>>">>, <<"<<4282>>">> >>, << <<"<<11547>>">>, <<"<<4283>>">> >>,
    << <<"<<11548>>">>, <<"<<4284>>">> >>, << <<"<<11549>>">>, <<"<<4285>>">> >>,
    << <<"<<11550>>">>, <<"<<4286>>">> >>, << <<"<<11551>>">>, <<"<<4287>>">> >>,
    << <<"<<11552>>">>, <<"<<4288>>">> >>, << <<"<<11553>>">>, <<"<<4289>>">> >>,
    << <<"<<11554>>">>, <<"<<4290>>">> >>, << <<"<<11555>>">>, <<"<<4291>>">> >>,
    << <<"<<11556>>">>, <<"<<4292>>">> >>, << <<"<<11557>>">>, <<"<<4293>>">> >>,
    << <<"<<11559>>">>, <<"<<4295>>">> >>, << <<"<<11565>>">>, <<"<<4301>>">> >>,
    << <<"<<42561>>">>, <<"<<42560>>">> >>, << <<"<<42563>>">>, <<"<<42562>>">> >>,
    << <<"<<42565>>">>, <<"<<42564>>">> >>, << <<"<<42567>>">>, <<"<<42566>>">> >>,
    << <<"<<42569>>">>, <<"<<42568>>">> >>, << <<"<<42571>>">>, <<"<<42570>>">> >>,
    << <<"<<42573>>">>, <<"<<42572>>">> >>, << <<"<<42575>>">>, <<"<<42574>>">> >>,
    << <<"<<42577>>">>, <<"<<42576>>">> >>, << <<"<<42579>>">>, <<"<<42578>>">> >>,
    << <<"<<42581>>">>, <<"<<42580>>">> >>, << <<"<<42583>>">>, <<"<<42582>>">> >>,
    << <<"<<42585>>">>, <<"<<42584>>">> >>, << <<"<<42587>>">>, <<"<<42586>>">> >>,
    << <<"<<42589>>">>, <<"<<42588>>">> >>, << <<"<<42591>>">>, <<"<<42590>>">> >>,
    << <<"<<42593>>">>, <<"<<42592>>">> >>, << <<"<<42595>>">>, <<"<<42594>>">> >>,
    << <<"<<42597>>">>, <<"<<42596>>">> >>, << <<"<<42599>>">>, <<"<<42598>>">> >>,
    << <<"<<42601>>">>, <<"<<42600>>">> >>, << <<"<<42603>>">>, <<"<<42602>>">> >>,
    << <<"<<42605>>">>, <<"<<42604>>">> >>, << <<"<<42625>>">>, <<"<<42624>>">> >>,
    << <<"<<42627>>">>, <<"<<42626>>">> >>, << <<"<<42629>>">>, <<"<<42628>>">> >>,
    << <<"<<42631>>">>, <<"<<42630>>">> >>, << <<"<<42633>>">>, <<"<<42632>>">> >>,
    << <<"<<42635>>">>, <<"<<42634>>">> >>, << <<"<<42637>>">>, <<"<<42636>>">> >>,
    << <<"<<42639>>">>, <<"<<42638>>">> >>, << <<"<<42641>>">>, <<"<<42640>>">> >>,
    << <<"<<42643>>">>, <<"<<42642>>">> >>, << <<"<<42645>>">>, <<"<<42644>>">> >>,
    << <<"<<42647>>">>, <<"<<42646>>">> >>, << <<"<<42649>>">>, <<"<<42648>>">> >>,
    << <<"<<42651>>">>, <<"<<42650>>">> >>, << <<"<<42787>>">>, <<"<<42786>>">> >>,
    << <<"<<42789>>">>, <<"<<42788>>">> >>, << <<"<<42791>>">>, <<"<<42790>>">> >>,
    << <<"<<42793>>">>, <<"<<42792>>">> >>, << <<"<<42795>>">>, <<"<<42794>>">> >>,
    << <<"<<42797>>">>, <<"<<42796>>">> >>, << <<"<<42799>>">>, <<"<<42798>>">> >>,
    << <<"<<42803>>">>, <<"<<42802>>">> >>, << <<"<<42805>>">>, <<"<<42804>>">> >>,
    << <<"<<42807>>">>, <<"<<42806>>">> >>, << <<"<<42809>>">>, <<"<<42808>>">> >>,
    << <<"<<42811>>">>, <<"<<42810>>">> >>, << <<"<<42813>>">>, <<"<<42812>>">> >>,
    << <<"<<42815>>">>, <<"<<42814>>">> >>, << <<"<<42817>>">>, <<"<<42816>>">> >>,
    << <<"<<42819>>">>, <<"<<42818>>">> >>, << <<"<<42821>>">>, <<"<<42820>>">> >>,
    << <<"<<42823>>">>, <<"<<42822>>">> >>, << <<"<<42825>>">>, <<"<<42824>>">> >>,
    << <<"<<42827>>">>, <<"<<42826>>">> >>, << <<"<<42829>>">>, <<"<<42828>>">> >>,
    << <<"<<42831>>">>, <<"<<42830>>">> >>, << <<"<<42833>>">>, <<"<<42832>>">> >>,
    << <<"<<42835>>">>, <<"<<42834>>">> >>, << <<"<<42837>>">>, <<"<<42836>>">> >>,
    << <<"<<42839>>">>, <<"<<42838>>">> >>, << <<"<<42841>>">>, <<"<<42840>>">> >>,
    << <<"<<42843>>">>, <<"<<42842>>">> >>, << <<"<<42845>>">>, <<"<<42844>>">> >>,
    << <<"<<42847>>">>, <<"<<42846>>">> >>, << <<"<<42849>>">>, <<"<<42848>>">> >>,
    << <<"<<42851>>">>, <<"<<42850>>">> >>, << <<"<<42853>>">>, <<"<<42852>>">> >>,
    << <<"<<42855>>">>, <<"<<42854>>">> >>, << <<"<<42857>>">>, <<"<<42856>>">> >>,
    << <<"<<42859>>">>, <<"<<42858>>">> >>, << <<"<<42861>>">>, <<"<<42860>>">> >>,
    << <<"<<42863>>">>, <<"<<42862>>">> >>, << <<"<<42874>>">>, <<"<<42873>>">> >>,
    << <<"<<42876>>">>, <<"<<42875>>">> >>, << <<"<<42879>>">>, <<"<<42878>>">> >>,
    << <<"<<42881>>">>, <<"<<42880>>">> >>, << <<"<<42883>>">>, <<"<<42882>>">> >>,
    << <<"<<42885>>">>, <<"<<42884>>">> >>, << <<"<<42887>>">>, <<"<<42886>>">> >>,
    << <<"<<42892>>">>, <<"<<42891>>">> >>, << <<"<<42897>>">>, <<"<<42896>>">> >>,
    << <<"<<42899>>">>, <<"<<42898>>">> >>, << <<"<<42900>>">>, <<"<<42948>>">> >>,
    << <<"<<42903>>">>, <<"<<42902>>">> >>, << <<"<<42905>>">>, <<"<<42904>>">> >>,
    << <<"<<42907>>">>, <<"<<42906>>">> >>, << <<"<<42909>>">>, <<"<<42908>>">> >>,
    << <<"<<42911>>">>, <<"<<42910>>">> >>, << <<"<<42913>>">>, <<"<<42912>>">> >>,
    << <<"<<42915>>">>, <<"<<42914>>">> >>, << <<"<<42917>>">>, <<"<<42916>>">> >>,
    << <<"<<42919>>">>, <<"<<42918>>">> >>, << <<"<<42921>>">>, <<"<<42920>>">> >>,
    << <<"<<42933>>">>, <<"<<42932>>">> >>, << <<"<<42935>>">>, <<"<<42934>>">> >>,
    << <<"<<42937>>">>, <<"<<42936>>">> >>, << <<"<<42939>>">>, <<"<<42938>>">> >>,
    << <<"<<42941>>">>, <<"<<42940>>">> >>, << <<"<<42943>>">>, <<"<<42942>>">> >>,
    << <<"<<42945>>">>, <<"<<42944>>">> >>, << <<"<<42947>>">>, <<"<<42946>>">> >>,
    << <<"<<42952>>">>, <<"<<42951>>">> >>, << <<"<<42954>>">>, <<"<<42953>>">> >>,
    << <<"<<42957>>">>, <<"<<42956>>">> >>, << <<"<<42959>>">>, <<"<<42958>>">> >>,
    << <<"<<42961>>">>, <<"<<42960>>">> >>, << <<"<<42963>>">>, <<"<<42962>>">> >>,
    << <<"<<42965>>">>, <<"<<42964>>">> >>, << <<"<<42967>>">>, <<"<<42966>>">> >>,
    << <<"<<42969>>">>, <<"<<42968>>">> >>, << <<"<<42971>>">>, <<"<<42970>>">> >>,
    << <<"<<42998>>">>, <<"<<42997>>">> >>, << <<"<<43859>>">>, <<"<<42931>>">> >>,
    << <<"<<43888>>">>, <<"<<5024>>">> >>, << <<"<<43889>>">>, <<"<<5025>>">> >>,
    << <<"<<43890>>">>, <<"<<5026>>">> >>, << <<"<<43891>>">>, <<"<<5027>>">> >>,
    << <<"<<43892>>">>, <<"<<5028>>">> >>, << <<"<<43893>>">>, <<"<<5029>>">> >>,
    << <<"<<43894>>">>, <<"<<5030>>">> >>, << <<"<<43895>>">>, <<"<<5031>>">> >>,
    << <<"<<43896>>">>, <<"<<5032>>">> >>, << <<"<<43897>>">>, <<"<<5033>>">> >>,
    << <<"<<43898>>">>, <<"<<5034>>">> >>, << <<"<<43899>>">>, <<"<<5035>>">> >>,
    << <<"<<43900>>">>, <<"<<5036>>">> >>, << <<"<<43901>>">>, <<"<<5037>>">> >>,
    << <<"<<43902>>">>, <<"<<5038>>">> >>, << <<"<<43903>>">>, <<"<<5039>>">> >>,
    << <<"<<43904>>">>, <<"<<5040>>">> >>, << <<"<<43905>>">>, <<"<<5041>>">> >>,
    << <<"<<43906>>">>, <<"<<5042>>">> >>, << <<"<<43907>>">>, <<"<<5043>>">> >>,
    << <<"<<43908>>">>, <<"<<5044>>">> >>, << <<"<<43909>>">>, <<"<<5045>>">> >>,
    << <<"<<43910>>">>, <<"<<5046>>">> >>, << <<"<<43911>>">>, <<"<<5047>>">> >>,
    << <<"<<43912>>">>, <<"<<5048>>">> >>, << <<"<<43913>>">>, <<"<<5049>>">> >>,
    << <<"<<43914>>">>, <<"<<5050>>">> >>, << <<"<<43915>>">>, <<"<<5051>>">> >>,
    << <<"<<43916>>">>, <<"<<5052>>">> >>, << <<"<<43917>>">>, <<"<<5053>>">> >>,
    << <<"<<43918>>">>, <<"<<5054>>">> >>, << <<"<<43919>>">>, <<"<<5055>>">> >>,
    << <<"<<43920>>">>, <<"<<5056>>">> >>, << <<"<<43921>>">>, <<"<<5057>>">> >>,
    << <<"<<43922>>">>, <<"<<5058>>">> >>, << <<"<<43923>>">>, <<"<<5059>>">> >>,
    << <<"<<43924>>">>, <<"<<5060>>">> >>, << <<"<<43925>>">>, <<"<<5061>>">> >>,
    << <<"<<43926>>">>, <<"<<5062>>">> >>, << <<"<<43927>>">>, <<"<<5063>>">> >>,
    << <<"<<43928>>">>, <<"<<5064>>">> >>, << <<"<<43929>>">>, <<"<<5065>>">> >>,
    << <<"<<43930>>">>, <<"<<5066>>">> >>, << <<"<<43931>>">>, <<"<<5067>>">> >>,
    << <<"<<43932>>">>, <<"<<5068>>">> >>, << <<"<<43933>>">>, <<"<<5069>>">> >>,
    << <<"<<43934>>">>, <<"<<5070>>">> >>, << <<"<<43935>>">>, <<"<<5071>>">> >>,
    << <<"<<43936>>">>, <<"<<5072>>">> >>, << <<"<<43937>>">>, <<"<<5073>>">> >>,
    << <<"<<43938>>">>, <<"<<5074>>">> >>, << <<"<<43939>>">>, <<"<<5075>>">> >>,
    << <<"<<43940>>">>, <<"<<5076>>">> >>, << <<"<<43941>>">>, <<"<<5077>>">> >>,
    << <<"<<43942>>">>, <<"<<5078>>">> >>, << <<"<<43943>>">>, <<"<<5079>>">> >>,
    << <<"<<43944>>">>, <<"<<5080>>">> >>, << <<"<<43945>>">>, <<"<<5081>>">> >>,
    << <<"<<43946>>">>, <<"<<5082>>">> >>, << <<"<<43947>>">>, <<"<<5083>>">> >>,
    << <<"<<43948>>">>, <<"<<5084>>">> >>, << <<"<<43949>>">>, <<"<<5085>>">> >>,
    << <<"<<43950>>">>, <<"<<5086>>">> >>, << <<"<<43951>>">>, <<"<<5087>>">> >>,
    << <<"<<43952>>">>, <<"<<5088>>">> >>, << <<"<<43953>>">>, <<"<<5089>>">> >>,
    << <<"<<43954>>">>, <<"<<5090>>">> >>, << <<"<<43955>>">>, <<"<<5091>>">> >>,
    << <<"<<43956>>">>, <<"<<5092>>">> >>, << <<"<<43957>>">>, <<"<<5093>>">> >>,
    << <<"<<43958>>">>, <<"<<5094>>">> >>, << <<"<<43959>>">>, <<"<<5095>>">> >>,
    << <<"<<43960>>">>, <<"<<5096>>">> >>, << <<"<<43961>>">>, <<"<<5097>>">> >>,
    << <<"<<43962>>">>, <<"<<5098>>">> >>, << <<"<<43963>>">>, <<"<<5099>>">> >>,
    << <<"<<43964>>">>, <<"<<5100>>">> >>, << <<"<<43965>>">>, <<"<<5101>>">> >>,
    << <<"<<43966>>">>, <<"<<5102>>">> >>, << <<"<<43967>>">>, <<"<<5103>>">> >>,
    << <<"<<64256>>">>, <<"F", "F">> >>, << <<"<<64257>>">>, <<"F", "I">> >>,
    << <<"<<64258>>">>, <<"F", "L">> >>, << <<"<<64259>>">>, <<"F", "F", "I">> >>,
    << <<"<<64260>>">>, <<"F", "F", "L">> >>, << <<"<<64261>>">>, <<"S", "T">> >>,
    << <<"<<64262>>">>, <<"S", "T">> >>, << <<"<<64275>>">>, <<"<<1348>>", "<<1350>>">> >>,
    << <<"<<64276>>">>, <<"<<1348>>", "<<1333>>">> >>,
    << <<"<<64277>>">>, <<"<<1348>>", "<<1339>>">> >>,
    << <<"<<64278>>">>, <<"<<1358>>", "<<1350>>">> >>,
    << <<"<<64279>>">>, <<"<<1348>>", "<<1341>>">> >>, << <<"<<65345>>">>, <<"<<65313>>">> >>,
    << <<"<<65346>>">>, <<"<<65314>>">> >>, << <<"<<65347>>">>, <<"<<65315>>">> >>,
    << <<"<<65348>>">>, <<"<<65316>>">> >>, << <<"<<65349>>">>, <<"<<65317>>">> >>,
    << <<"<<65350>>">>, <<"<<65318>>">> >>, << <<"<<65351>>">>, <<"<<65319>>">> >>,
    << <<"<<65352>>">>, <<"<<65320>>">> >>, << <<"<<65353>>">>, <<"<<65321>>">> >>,
    << <<"<<65354>>">>, <<"<<65322>>">> >>, << <<"<<65355>>">>, <<"<<65323>>">> >>,
    << <<"<<65356>>">>, <<"<<65324>>">> >>, << <<"<<65357>>">>, <<"<<65325>>">> >>,
    << <<"<<65358>>">>, <<"<<65326>>">> >>, << <<"<<65359>>">>, <<"<<65327>>">> >>,
    << <<"<<65360>>">>, <<"<<65328>>">> >>, << <<"<<65361>>">>, <<"<<65329>>">> >>,
    << <<"<<65362>>">>, <<"<<65330>>">> >>, << <<"<<65363>>">>, <<"<<65331>>">> >>,
    << <<"<<65364>>">>, <<"<<65332>>">> >>, << <<"<<65365>>">>, <<"<<65333>>">> >>,
    << <<"<<65366>>">>, <<"<<65334>>">> >>, << <<"<<65367>>">>, <<"<<65335>>">> >>,
    << <<"<<65368>>">>, <<"<<65336>>">> >>, << <<"<<65369>>">>, <<"<<65337>>">> >>,
    << <<"<<65370>>">>, <<"<<65338>>">> >>,
    << <<"<<55297>>", "<<56360>>">>, <<"<<55297>>", "<<56320>>">> >>,
    << <<"<<55297>>", "<<56361>>">>, <<"<<55297>>", "<<56321>>">> >>,
    << <<"<<55297>>", "<<56362>>">>, <<"<<55297>>", "<<56322>>">> >>,
    << <<"<<55297>>", "<<56363>>">>, <<"<<55297>>", "<<56323>>">> >>,
    << <<"<<55297>>", "<<56364>>">>, <<"<<55297>>", "<<56324>>">> >>,
    << <<"<<55297>>", "<<56365>>">>, <<"<<55297>>", "<<56325>>">> >>,
    << <<"<<55297>>", "<<56366>>">>, <<"<<55297>>", "<<56326>>">> >>,
    << <<"<<55297>>", "<<56367>>">>, <<"<<55297>>", "<<56327>>">> >>,
    << <<"<<55297>>", "<<56368>>">>, <<"<<55297>>", "<<56328>>">> >>,
    << <<"<<55297>>", "<<56369>>">>, <<"<<55297>>", "<<56329>>">> >>,
    << <<"<<55297>>", "<<56370>>">>, <<"<<55297>>", "<<56330>>">> >>,
    << <<"<<55297>>", "<<56371>>">>, <<"<<55297>>", "<<56331>>">> >>,
    << <<"<<55297>>", "<<56372>>">>, <<"<<55297>>", "<<56332>>">> >>,
    << <<"<<55297>>", "<<56373>>">>, <<"<<55297>>", "<<56333>>">> >>,
    << <<"<<55297>>", "<<56374>>">>, <<"<<55297>>", "<<56334>>">> >>,
    << <<"<<55297>>", "<<56375>>">>, <<"<<55297>>", "<<56335>>">> >>,
    << <<"<<55297>>", "<<56376>>">>, <<"<<55297>>", "<<56336>>">> >>,
    << <<"<<55297>>", "<<56377>>">>, <<"<<55297>>", "<<56337>>">> >>,
    << <<"<<55297>>", "<<56378>>">>, <<"<<55297>>", "<<56338>>">> >>,
    << <<"<<55297>>", "<<56379>>">>, <<"<<55297>>", "<<56339>>">> >>,
    << <<"<<55297>>", "<<56380>>">>, <<"<<55297>>", "<<56340>>">> >>,
    << <<"<<55297>>", "<<56381>>">>, <<"<<55297>>", "<<56341>>">> >>,
    << <<"<<55297>>", "<<56382>>">>, <<"<<55297>>", "<<56342>>">> >>,
    << <<"<<55297>>", "<<56383>>">>, <<"<<55297>>", "<<56343>>">> >>,
    << <<"<<55297>>", "<<56384>>">>, <<"<<55297>>", "<<56344>>">> >>,
    << <<"<<55297>>", "<<56385>>">>, <<"<<55297>>", "<<56345>>">> >>,
    << <<"<<55297>>", "<<56386>>">>, <<"<<55297>>", "<<56346>>">> >>,
    << <<"<<55297>>", "<<56387>>">>, <<"<<55297>>", "<<56347>>">> >>,
    << <<"<<55297>>", "<<56388>>">>, <<"<<55297>>", "<<56348>>">> >>,
    << <<"<<55297>>", "<<56389>>">>, <<"<<55297>>", "<<56349>>">> >>,
    << <<"<<55297>>", "<<56390>>">>, <<"<<55297>>", "<<56350>>">> >>,
    << <<"<<55297>>", "<<56391>>">>, <<"<<55297>>", "<<56351>>">> >>,
    << <<"<<55297>>", "<<56392>>">>, <<"<<55297>>", "<<56352>>">> >>,
    << <<"<<55297>>", "<<56393>>">>, <<"<<55297>>", "<<56353>>">> >>,
    << <<"<<55297>>", "<<56394>>">>, <<"<<55297>>", "<<56354>>">> >>,
    << <<"<<55297>>", "<<56395>>">>, <<"<<55297>>", "<<56355>>">> >>,
    << <<"<<55297>>", "<<56396>>">>, <<"<<55297>>", "<<56356>>">> >>,
    << <<"<<55297>>", "<<56397>>">>, <<"<<55297>>", "<<56357>>">> >>,
    << <<"<<55297>>", "<<56398>>">>, <<"<<55297>>", "<<56358>>">> >>,
    << <<"<<55297>>", "<<56399>>">>, <<"<<55297>>", "<<56359>>">> >>,
    << <<"<<55297>>", "<<56536>>">>, <<"<<55297>>", "<<56496>>">> >>,
    << <<"<<55297>>", "<<56537>>">>, <<"<<55297>>", "<<56497>>">> >>,
    << <<"<<55297>>", "<<56538>>">>, <<"<<55297>>", "<<56498>>">> >>,
    << <<"<<55297>>", "<<56539>>">>, <<"<<55297>>", "<<56499>>">> >>,
    << <<"<<55297>>", "<<56540>>">>, <<"<<55297>>", "<<56500>>">> >>,
    << <<"<<55297>>", "<<56541>>">>, <<"<<55297>>", "<<56501>>">> >>,
    << <<"<<55297>>", "<<56542>>">>, <<"<<55297>>", "<<56502>>">> >>,
    << <<"<<55297>>", "<<56543>>">>, <<"<<55297>>", "<<56503>>">> >>,
    << <<"<<55297>>", "<<56544>>">>, <<"<<55297>>", "<<56504>>">> >>,
    << <<"<<55297>>", "<<56545>>">>, <<"<<55297>>", "<<56505>>">> >>,
    << <<"<<55297>>", "<<56546>>">>, <<"<<55297>>", "<<56506>>">> >>,
    << <<"<<55297>>", "<<56547>>">>, <<"<<55297>>", "<<56507>>">> >>,
    << <<"<<55297>>", "<<56548>>">>, <<"<<55297>>", "<<56508>>">> >>,
    << <<"<<55297>>", "<<56549>>">>, <<"<<55297>>", "<<56509>>">> >>,
    << <<"<<55297>>", "<<56550>>">>, <<"<<55297>>", "<<56510>>">> >>,
    << <<"<<55297>>", "<<56551>>">>, <<"<<55297>>", "<<56511>>">> >>,
    << <<"<<55297>>", "<<56552>>">>, <<"<<55297>>", "<<56512>>">> >>,
    << <<"<<55297>>", "<<56553>>">>, <<"<<55297>>", "<<56513>>">> >>,
    << <<"<<55297>>", "<<56554>>">>, <<"<<55297>>", "<<56514>>">> >>,
    << <<"<<55297>>", "<<56555>>">>, <<"<<55297>>", "<<56515>>">> >>,
    << <<"<<55297>>", "<<56556>>">>, <<"<<55297>>", "<<56516>>">> >>,
    << <<"<<55297>>", "<<56557>>">>, <<"<<55297>>", "<<56517>>">> >>,
    << <<"<<55297>>", "<<56558>>">>, <<"<<55297>>", "<<56518>>">> >>,
    << <<"<<55297>>", "<<56559>>">>, <<"<<55297>>", "<<56519>>">> >>,
    << <<"<<55297>>", "<<56560>>">>, <<"<<55297>>", "<<56520>>">> >>,
    << <<"<<55297>>", "<<56561>>">>, <<"<<55297>>", "<<56521>>">> >>,
    << <<"<<55297>>", "<<56562>>">>, <<"<<55297>>", "<<56522>>">> >>,
    << <<"<<55297>>", "<<56563>>">>, <<"<<55297>>", "<<56523>>">> >>,
    << <<"<<55297>>", "<<56564>>">>, <<"<<55297>>", "<<56524>>">> >>,
    << <<"<<55297>>", "<<56565>>">>, <<"<<55297>>", "<<56525>>">> >>,
    << <<"<<55297>>", "<<56566>>">>, <<"<<55297>>", "<<56526>>">> >>,
    << <<"<<55297>>", "<<56567>>">>, <<"<<55297>>", "<<56527>>">> >>,
    << <<"<<55297>>", "<<56568>>">>, <<"<<55297>>", "<<56528>>">> >>,
    << <<"<<55297>>", "<<56569>>">>, <<"<<55297>>", "<<56529>>">> >>,
    << <<"<<55297>>", "<<56570>>">>, <<"<<55297>>", "<<56530>>">> >>,
    << <<"<<55297>>", "<<56571>>">>, <<"<<55297>>", "<<56531>>">> >>,
    << <<"<<55297>>", "<<56727>>">>, <<"<<55297>>", "<<56688>>">> >>,
    << <<"<<55297>>", "<<56728>>">>, <<"<<55297>>", "<<56689>>">> >>,
    << <<"<<55297>>", "<<56729>>">>, <<"<<55297>>", "<<56690>>">> >>,
    << <<"<<55297>>", "<<56730>>">>, <<"<<55297>>", "<<56691>>">> >>,
    << <<"<<55297>>", "<<56731>>">>, <<"<<55297>>", "<<56692>>">> >>,
    << <<"<<55297>>", "<<56732>>">>, <<"<<55297>>", "<<56693>>">> >>,
    << <<"<<55297>>", "<<56733>>">>, <<"<<55297>>", "<<56694>>">> >>,
    << <<"<<55297>>", "<<56734>>">>, <<"<<55297>>", "<<56695>>">> >>,
    << <<"<<55297>>", "<<56735>>">>, <<"<<55297>>", "<<56696>>">> >>,
    << <<"<<55297>>", "<<56736>>">>, <<"<<55297>>", "<<56697>>">> >>,
    << <<"<<55297>>", "<<56737>>">>, <<"<<55297>>", "<<56698>>">> >>,
    << <<"<<55297>>", "<<56739>>">>, <<"<<55297>>", "<<56700>>">> >>,
    << <<"<<55297>>", "<<56740>>">>, <<"<<55297>>", "<<56701>>">> >>,
    << <<"<<55297>>", "<<56741>>">>, <<"<<55297>>", "<<56702>>">> >>,
    << <<"<<55297>>", "<<56742>>">>, <<"<<55297>>", "<<56703>>">> >>,
    << <<"<<55297>>", "<<56743>>">>, <<"<<55297>>", "<<56704>>">> >>,
    << <<"<<55297>>", "<<56744>>">>, <<"<<55297>>", "<<56705>>">> >>,
    << <<"<<55297>>", "<<56745>>">>, <<"<<55297>>", "<<56706>>">> >>,
    << <<"<<55297>>", "<<56746>>">>, <<"<<55297>>", "<<56707>>">> >>,
    << <<"<<55297>>", "<<56747>>">>, <<"<<55297>>", "<<56708>>">> >>,
    << <<"<<55297>>", "<<56748>>">>, <<"<<55297>>", "<<56709>>">> >>,
    << <<"<<55297>>", "<<56749>>">>, <<"<<55297>>", "<<56710>>">> >>,
    << <<"<<55297>>", "<<56750>>">>, <<"<<55297>>", "<<56711>>">> >>,
    << <<"<<55297>>", "<<56751>>">>, <<"<<55297>>", "<<56712>>">> >>,
    << <<"<<55297>>", "<<56752>>">>, <<"<<55297>>", "<<56713>>">> >>,
    << <<"<<55297>>", "<<56753>>">>, <<"<<55297>>", "<<56714>>">> >>,
    << <<"<<55297>>", "<<56755>>">>, <<"<<55297>>", "<<56716>>">> >>,
    << <<"<<55297>>", "<<56756>>">>, <<"<<55297>>", "<<56717>>">> >>,
    << <<"<<55297>>", "<<56757>>">>, <<"<<55297>>", "<<56718>>">> >>,
    << <<"<<55297>>", "<<56758>>">>, <<"<<55297>>", "<<56719>>">> >>,
    << <<"<<55297>>", "<<56759>>">>, <<"<<55297>>", "<<56720>>">> >>,
    << <<"<<55297>>", "<<56760>>">>, <<"<<55297>>", "<<56721>>">> >>,
    << <<"<<55297>>", "<<56761>>">>, <<"<<55297>>", "<<56722>>">> >>,
    << <<"<<55297>>", "<<56763>>">>, <<"<<55297>>", "<<56724>>">> >>,
    << <<"<<55297>>", "<<56764>>">>, <<"<<55297>>", "<<56725>>">> >>,
    << <<"<<55299>>", "<<56512>>">>, <<"<<55299>>", "<<56448>>">> >>,
    << <<"<<55299>>", "<<56513>>">>, <<"<<55299>>", "<<56449>>">> >>,
    << <<"<<55299>>", "<<56514>>">>, <<"<<55299>>", "<<56450>>">> >>,
    << <<"<<55299>>", "<<56515>>">>, <<"<<55299>>", "<<56451>>">> >>,
    << <<"<<55299>>", "<<56516>>">>, <<"<<55299>>", "<<56452>>">> >>,
    << <<"<<55299>>", "<<56517>>">>, <<"<<55299>>", "<<56453>>">> >>,
    << <<"<<55299>>", "<<56518>>">>, <<"<<55299>>", "<<56454>>">> >>,
    << <<"<<55299>>", "<<56519>>">>, <<"<<55299>>", "<<56455>>">> >>,
    << <<"<<55299>>", "<<56520>>">>, <<"<<55299>>", "<<56456>>">> >>,
    << <<"<<55299>>", "<<56521>>">>, <<"<<55299>>", "<<56457>>">> >>,
    << <<"<<55299>>", "<<56522>>">>, <<"<<55299>>", "<<56458>>">> >>,
    << <<"<<55299>>", "<<56523>>">>, <<"<<55299>>", "<<56459>>">> >>,
    << <<"<<55299>>", "<<56524>>">>, <<"<<55299>>", "<<56460>>">> >>,
    << <<"<<55299>>", "<<56525>>">>, <<"<<55299>>", "<<56461>>">> >>,
    << <<"<<55299>>", "<<56526>>">>, <<"<<55299>>", "<<56462>>">> >>,
    << <<"<<55299>>", "<<56527>>">>, <<"<<55299>>", "<<56463>>">> >>,
    << <<"<<55299>>", "<<56528>>">>, <<"<<55299>>", "<<56464>>">> >>,
    << <<"<<55299>>", "<<56529>>">>, <<"<<55299>>", "<<56465>>">> >>,
    << <<"<<55299>>", "<<56530>>">>, <<"<<55299>>", "<<56466>>">> >>,
    << <<"<<55299>>", "<<56531>>">>, <<"<<55299>>", "<<56467>>">> >>,
    << <<"<<55299>>", "<<56532>>">>, <<"<<55299>>", "<<56468>>">> >>,
    << <<"<<55299>>", "<<56533>>">>, <<"<<55299>>", "<<56469>>">> >>,
    << <<"<<55299>>", "<<56534>>">>, <<"<<55299>>", "<<56470>>">> >>,
    << <<"<<55299>>", "<<56535>>">>, <<"<<55299>>", "<<56471>>">> >>,
    << <<"<<55299>>", "<<56536>>">>, <<"<<55299>>", "<<56472>>">> >>,
    << <<"<<55299>>", "<<56537>>">>, <<"<<55299>>", "<<56473>>">> >>,
    << <<"<<55299>>", "<<56538>>">>, <<"<<55299>>", "<<56474>>">> >>,
    << <<"<<55299>>", "<<56539>>">>, <<"<<55299>>", "<<56475>>">> >>,
    << <<"<<55299>>", "<<56540>>">>, <<"<<55299>>", "<<56476>>">> >>,
    << <<"<<55299>>", "<<56541>>">>, <<"<<55299>>", "<<56477>>">> >>,
    << <<"<<55299>>", "<<56542>>">>, <<"<<55299>>", "<<56478>>">> >>,
    << <<"<<55299>>", "<<56543>>">>, <<"<<55299>>", "<<56479>>">> >>,
    << <<"<<55299>>", "<<56544>>">>, <<"<<55299>>", "<<56480>>">> >>,
    << <<"<<55299>>", "<<56545>>">>, <<"<<55299>>", "<<56481>>">> >>,
    << <<"<<55299>>", "<<56546>>">>, <<"<<55299>>", "<<56482>>">> >>,
    << <<"<<55299>>", "<<56547>>">>, <<"<<55299>>", "<<56483>>">> >>,
    << <<"<<55299>>", "<<56548>>">>, <<"<<55299>>", "<<56484>>">> >>,
    << <<"<<55299>>", "<<56549>>">>, <<"<<55299>>", "<<56485>>">> >>,
    << <<"<<55299>>", "<<56550>>">>, <<"<<55299>>", "<<56486>>">> >>,
    << <<"<<55299>>", "<<56551>>">>, <<"<<55299>>", "<<56487>>">> >>,
    << <<"<<55299>>", "<<56552>>">>, <<"<<55299>>", "<<56488>>">> >>,
    << <<"<<55299>>", "<<56553>>">>, <<"<<55299>>", "<<56489>>">> >>,
    << <<"<<55299>>", "<<56554>>">>, <<"<<55299>>", "<<56490>>">> >>,
    << <<"<<55299>>", "<<56555>>">>, <<"<<55299>>", "<<56491>>">> >>,
    << <<"<<55299>>", "<<56556>>">>, <<"<<55299>>", "<<56492>>">> >>,
    << <<"<<55299>>", "<<56557>>">>, <<"<<55299>>", "<<56493>>">> >>,
    << <<"<<55299>>", "<<56558>>">>, <<"<<55299>>", "<<56494>>">> >>,
    << <<"<<55299>>", "<<56559>>">>, <<"<<55299>>", "<<56495>>">> >>,
    << <<"<<55299>>", "<<56560>>">>, <<"<<55299>>", "<<56496>>">> >>,
    << <<"<<55299>>", "<<56561>>">>, <<"<<55299>>", "<<56497>>">> >>,
    << <<"<<55299>>", "<<56562>>">>, <<"<<55299>>", "<<56498>>">> >>,
    << <<"<<55299>>", "<<56688>>">>, <<"<<55299>>", "<<56656>>">> >>,
    << <<"<<55299>>", "<<56689>>">>, <<"<<55299>>", "<<56657>>">> >>,
    << <<"<<55299>>", "<<56690>>">>, <<"<<55299>>", "<<56658>>">> >>,
    << <<"<<55299>>", "<<56691>>">>, <<"<<55299>>", "<<56659>>">> >>,
    << <<"<<55299>>", "<<56692>>">>, <<"<<55299>>", "<<56660>>">> >>,
    << <<"<<55299>>", "<<56693>>">>, <<"<<55299>>", "<<56661>>">> >>,
    << <<"<<55299>>", "<<56694>>">>, <<"<<55299>>", "<<56662>>">> >>,
    << <<"<<55299>>", "<<56695>>">>, <<"<<55299>>", "<<56663>>">> >>,
    << <<"<<55299>>", "<<56696>>">>, <<"<<55299>>", "<<56664>>">> >>,
    << <<"<<55299>>", "<<56697>>">>, <<"<<55299>>", "<<56665>>">> >>,
    << <<"<<55299>>", "<<56698>>">>, <<"<<55299>>", "<<56666>>">> >>,
    << <<"<<55299>>", "<<56699>>">>, <<"<<55299>>", "<<56667>>">> >>,
    << <<"<<55299>>", "<<56700>>">>, <<"<<55299>>", "<<56668>>">> >>,
    << <<"<<55299>>", "<<56701>>">>, <<"<<55299>>", "<<56669>>">> >>,
    << <<"<<55299>>", "<<56702>>">>, <<"<<55299>>", "<<56670>>">> >>,
    << <<"<<55299>>", "<<56703>>">>, <<"<<55299>>", "<<56671>>">> >>,
    << <<"<<55299>>", "<<56704>>">>, <<"<<55299>>", "<<56672>>">> >>,
    << <<"<<55299>>", "<<56705>>">>, <<"<<55299>>", "<<56673>>">> >>,
    << <<"<<55299>>", "<<56706>>">>, <<"<<55299>>", "<<56674>>">> >>,
    << <<"<<55299>>", "<<56707>>">>, <<"<<55299>>", "<<56675>>">> >>,
    << <<"<<55299>>", "<<56708>>">>, <<"<<55299>>", "<<56676>>">> >>,
    << <<"<<55299>>", "<<56709>>">>, <<"<<55299>>", "<<56677>>">> >>,
    << <<"<<55302>>", "<<56512>>">>, <<"<<55302>>", "<<56480>>">> >>,
    << <<"<<55302>>", "<<56513>>">>, <<"<<55302>>", "<<56481>>">> >>,
    << <<"<<55302>>", "<<56514>>">>, <<"<<55302>>", "<<56482>>">> >>,
    << <<"<<55302>>", "<<56515>>">>, <<"<<55302>>", "<<56483>>">> >>,
    << <<"<<55302>>", "<<56516>>">>, <<"<<55302>>", "<<56484>>">> >>,
    << <<"<<55302>>", "<<56517>>">>, <<"<<55302>>", "<<56485>>">> >>,
    << <<"<<55302>>", "<<56518>>">>, <<"<<55302>>", "<<56486>>">> >>,
    << <<"<<55302>>", "<<56519>>">>, <<"<<55302>>", "<<56487>>">> >>,
    << <<"<<55302>>", "<<56520>>">>, <<"<<55302>>", "<<56488>>">> >>,
    << <<"<<55302>>", "<<56521>>">>, <<"<<55302>>", "<<56489>>">> >>,
    << <<"<<55302>>", "<<56522>>">>, <<"<<55302>>", "<<56490>>">> >>,
    << <<"<<55302>>", "<<56523>>">>, <<"<<55302>>", "<<56491>>">> >>,
    << <<"<<55302>>", "<<56524>>">>, <<"<<55302>>", "<<56492>>">> >>,
    << <<"<<55302>>", "<<56525>>">>, <<"<<55302>>", "<<56493>>">> >>,
    << <<"<<55302>>", "<<56526>>">>, <<"<<55302>>", "<<56494>>">> >>,
    << <<"<<55302>>", "<<56527>>">>, <<"<<55302>>", "<<56495>>">> >>,
    << <<"<<55302>>", "<<56528>>">>, <<"<<55302>>", "<<56496>>">> >>,
    << <<"<<55302>>", "<<56529>>">>, <<"<<55302>>", "<<56497>>">> >>,
    << <<"<<55302>>", "<<56530>>">>, <<"<<55302>>", "<<56498>>">> >>,
    << <<"<<55302>>", "<<56531>>">>, <<"<<55302>>", "<<56499>>">> >>,
    << <<"<<55302>>", "<<56532>>">>, <<"<<55302>>", "<<56500>>">> >>,
    << <<"<<55302>>", "<<56533>>">>, <<"<<55302>>", "<<56501>>">> >>,
    << <<"<<55302>>", "<<56534>>">>, <<"<<55302>>", "<<56502>>">> >>,
    << <<"<<55302>>", "<<56535>>">>, <<"<<55302>>", "<<56503>>">> >>,
    << <<"<<55302>>", "<<56536>>">>, <<"<<55302>>", "<<56504>>">> >>,
    << <<"<<55302>>", "<<56537>>">>, <<"<<55302>>", "<<56505>>">> >>,
    << <<"<<55302>>", "<<56538>>">>, <<"<<55302>>", "<<56506>>">> >>,
    << <<"<<55302>>", "<<56539>>">>, <<"<<55302>>", "<<56507>>">> >>,
    << <<"<<55302>>", "<<56540>>">>, <<"<<55302>>", "<<56508>>">> >>,
    << <<"<<55302>>", "<<56541>>">>, <<"<<55302>>", "<<56509>>">> >>,
    << <<"<<55302>>", "<<56542>>">>, <<"<<55302>>", "<<56510>>">> >>,
    << <<"<<55302>>", "<<56543>>">>, <<"<<55302>>", "<<56511>>">> >>,
    << <<"<<55323>>", "<<56928>>">>, <<"<<55323>>", "<<56896>>">> >>,
    << <<"<<55323>>", "<<56929>>">>, <<"<<55323>>", "<<56897>>">> >>,
    << <<"<<55323>>", "<<56930>>">>, <<"<<55323>>", "<<56898>>">> >>,
    << <<"<<55323>>", "<<56931>>">>, <<"<<55323>>", "<<56899>>">> >>,
    << <<"<<55323>>", "<<56932>>">>, <<"<<55323>>", "<<56900>>">> >>,
    << <<"<<55323>>", "<<56933>>">>, <<"<<55323>>", "<<56901>>">> >>,
    << <<"<<55323>>", "<<56934>>">>, <<"<<55323>>", "<<56902>>">> >>,
    << <<"<<55323>>", "<<56935>>">>, <<"<<55323>>", "<<56903>>">> >>,
    << <<"<<55323>>", "<<56936>>">>, <<"<<55323>>", "<<56904>>">> >>,
    << <<"<<55323>>", "<<56937>>">>, <<"<<55323>>", "<<56905>>">> >>,
    << <<"<<55323>>", "<<56938>>">>, <<"<<55323>>", "<<56906>>">> >>,
    << <<"<<55323>>", "<<56939>>">>, <<"<<55323>>", "<<56907>>">> >>,
    << <<"<<55323>>", "<<56940>>">>, <<"<<55323>>", "<<56908>>">> >>,
    << <<"<<55323>>", "<<56941>>">>, <<"<<55323>>", "<<56909>>">> >>,
    << <<"<<55323>>", "<<56942>>">>, <<"<<55323>>", "<<56910>>">> >>,
    << <<"<<55323>>", "<<56943>>">>, <<"<<55323>>", "<<56911>>">> >>,
    << <<"<<55323>>", "<<56944>>">>, <<"<<55323>>", "<<56912>>">> >>,
    << <<"<<55323>>", "<<56945>>">>, <<"<<55323>>", "<<56913>>">> >>,
    << <<"<<55323>>", "<<56946>>">>, <<"<<55323>>", "<<56914>>">> >>,
    << <<"<<55323>>", "<<56947>>">>, <<"<<55323>>", "<<56915>>">> >>,
    << <<"<<55323>>", "<<56948>>">>, <<"<<55323>>", "<<56916>>">> >>,
    << <<"<<55323>>", "<<56949>>">>, <<"<<55323>>", "<<56917>>">> >>,
    << <<"<<55323>>", "<<56950>>">>, <<"<<55323>>", "<<56918>>">> >>,
    << <<"<<55323>>", "<<56951>>">>, <<"<<55323>>", "<<56919>>">> >>,
    << <<"<<55323>>", "<<56952>>">>, <<"<<55323>>", "<<56920>>">> >>,
    << <<"<<55323>>", "<<56953>>">>, <<"<<55323>>", "<<56921>>">> >>,
    << <<"<<55323>>", "<<56954>>">>, <<"<<55323>>", "<<56922>>">> >>,
    << <<"<<55323>>", "<<56955>>">>, <<"<<55323>>", "<<56923>>">> >>,
    << <<"<<55323>>", "<<56956>>">>, <<"<<55323>>", "<<56924>>">> >>,
    << <<"<<55323>>", "<<56957>>">>, <<"<<55323>>", "<<56925>>">> >>,
    << <<"<<55323>>", "<<56958>>">>, <<"<<55323>>", "<<56926>>">> >>,
    << <<"<<55323>>", "<<56959>>">>, <<"<<55323>>", "<<56927>>">> >>,
    << <<"<<55323>>", "<<57019>>">>, <<"<<55323>>", "<<56992>>">> >>,
    << <<"<<55323>>", "<<57020>>">>, <<"<<55323>>", "<<56993>>">> >>,
    << <<"<<55323>>", "<<57021>>">>, <<"<<55323>>", "<<56994>>">> >>,
    << <<"<<55323>>", "<<57022>>">>, <<"<<55323>>", "<<56995>>">> >>,
    << <<"<<55323>>", "<<57023>>">>, <<"<<55323>>", "<<56996>>">> >>,
    << <<"<<55323>>", "<<57024>>">>, <<"<<55323>>", "<<56997>>">> >>,
    << <<"<<55323>>", "<<57025>>">>, <<"<<55323>>", "<<56998>>">> >>,
    << <<"<<55323>>", "<<57026>>">>, <<"<<55323>>", "<<56999>>">> >>,
    << <<"<<55323>>", "<<57027>>">>, <<"<<55323>>", "<<57000>>">> >>,
    << <<"<<55323>>", "<<57028>>">>, <<"<<55323>>", "<<57001>>">> >>,
    << <<"<<55323>>", "<<57029>>">>, <<"<<55323>>", "<<57002>>">> >>,
    << <<"<<55323>>", "<<57030>>">>, <<"<<55323>>", "<<57003>>">> >>,
    << <<"<<55323>>", "<<57031>>">>, <<"<<55323>>", "<<57004>>">> >>,
    << <<"<<55323>>", "<<57032>>">>, <<"<<55323>>", "<<57005>>">> >>,
    << <<"<<55323>>", "<<57033>>">>, <<"<<55323>>", "<<57006>>">> >>,
    << <<"<<55323>>", "<<57034>>">>, <<"<<55323>>", "<<57007>>">> >>,
    << <<"<<55323>>", "<<57035>>">>, <<"<<55323>>", "<<57008>>">> >>,
    << <<"<<55323>>", "<<57036>>">>, <<"<<55323>>", "<<57009>>">> >>,
    << <<"<<55323>>", "<<57037>>">>, <<"<<55323>>", "<<57010>>">> >>,
    << <<"<<55323>>", "<<57038>>">>, <<"<<55323>>", "<<57011>>">> >>,
    << <<"<<55323>>", "<<57039>>">>, <<"<<55323>>", "<<57012>>">> >>,
    << <<"<<55323>>", "<<57040>>">>, <<"<<55323>>", "<<57013>>">> >>,
    << <<"<<55323>>", "<<57041>>">>, <<"<<55323>>", "<<57014>>">> >>,
    << <<"<<55323>>", "<<57042>>">>, <<"<<55323>>", "<<57015>>">> >>,
    << <<"<<55323>>", "<<57043>>">>, <<"<<55323>>", "<<57016>>">> >>,
    << <<"<<55354>>", "<<56610>>">>, <<"<<55354>>", "<<56576>>">> >>,
    << <<"<<55354>>", "<<56611>>">>, <<"<<55354>>", "<<56577>>">> >>,
    << <<"<<55354>>", "<<56612>>">>, <<"<<55354>>", "<<56578>>">> >>,
    << <<"<<55354>>", "<<56613>>">>, <<"<<55354>>", "<<56579>>">> >>,
    << <<"<<55354>>", "<<56614>>">>, <<"<<55354>>", "<<56580>>">> >>,
    << <<"<<55354>>", "<<56615>>">>, <<"<<55354>>", "<<56581>>">> >>,
    << <<"<<55354>>", "<<56616>>">>, <<"<<55354>>", "<<56582>>">> >>,
    << <<"<<55354>>", "<<56617>>">>, <<"<<55354>>", "<<56583>>">> >>,
    << <<"<<55354>>", "<<56618>>">>, <<"<<55354>>", "<<56584>>">> >>,
    << <<"<<55354>>", "<<56619>>">>, <<"<<55354>>", "<<56585>>">> >>,
    << <<"<<55354>>", "<<56620>>">>, <<"<<55354>>", "<<56586>>">> >>,
    << <<"<<55354>>", "<<56621>>">>, <<"<<55354>>", "<<56587>>">> >>,
    << <<"<<55354>>", "<<56622>>">>, <<"<<55354>>", "<<56588>>">> >>,
    << <<"<<55354>>", "<<56623>>">>, <<"<<55354>>", "<<56589>>">> >>,
    << <<"<<55354>>", "<<56624>>">>, <<"<<55354>>", "<<56590>>">> >>,
    << <<"<<55354>>", "<<56625>>">>, <<"<<55354>>", "<<56591>>">> >>,
    << <<"<<55354>>", "<<56626>>">>, <<"<<55354>>", "<<56592>>">> >>,
    << <<"<<55354>>", "<<56627>>">>, <<"<<55354>>", "<<56593>>">> >>,
    << <<"<<55354>>", "<<56628>>">>, <<"<<55354>>", "<<56594>>">> >>,
    << <<"<<55354>>", "<<56629>>">>, <<"<<55354>>", "<<56595>>">> >>,
    << <<"<<55354>>", "<<56630>>">>, <<"<<55354>>", "<<56596>>">> >>,
    << <<"<<55354>>", "<<56631>>">>, <<"<<55354>>", "<<56597>>">> >>,
    << <<"<<55354>>", "<<56632>>">>, <<"<<55354>>", "<<56598>>">> >>,
    << <<"<<55354>>", "<<56633>>">>, <<"<<55354>>", "<<56599>>">> >>,
    << <<"<<55354>>", "<<56634>>">>, <<"<<55354>>", "<<56600>>">> >>,
    << <<"<<55354>>", "<<56635>>">>, <<"<<55354>>", "<<56601>>">> >>,
    << <<"<<55354>>", "<<56636>>">>, <<"<<55354>>", "<<56602>>">> >>,
    << <<"<<55354>>", "<<56637>>">>, <<"<<55354>>", "<<56603>>">> >>,
    << <<"<<55354>>", "<<56638>>">>, <<"<<55354>>", "<<56604>>">> >>,
    << <<"<<55354>>", "<<56639>>">>, <<"<<55354>>", "<<56605>>">> >>,
    << <<"<<55354>>", "<<56640>>">>, <<"<<55354>>", "<<56606>>">> >>,
    << <<"<<55354>>", "<<56641>>">>, <<"<<55354>>", "<<56607>>">> >>,
    << <<"<<55354>>", "<<56642>>">>, <<"<<55354>>", "<<56608>>">> >>,
    << <<"<<55354>>", "<<56643>>">>, <<"<<55354>>", "<<56609>>">> >>>>

\* The index in UpperCaseMapping of the entry for the characters key, 0 when
\* there is none.
UpperCaseEntry(key) ==
  IF \E k \in 1..Len(UpperCaseMapping) : UpperCaseMapping[k][1] = key
  THEN CHOOSE k \in 1..Len(UpperCaseMapping) : UpperCaseMapping[k][1] = key
  ELSE 0

\* What the code unit at i of s becomes: a surrogate follows its pair.
UpperCaseAt(s, i) ==
  IF s[i] \in DOMAIN AsciiUpper THEN <<AsciiUpper[s[i]]>>
  ELSE IF i < Len(s) /\ UpperCaseEntry(<<s[i], s[i + 1]>>) > 0
  THEN <<UpperCaseMapping[UpperCaseEntry(<<s[i], s[i + 1]>>)][2][1]>>
  ELSE IF i > 1 /\ UpperCaseEntry(<<s[i - 1], s[i]>>) > 0
  THEN <<UpperCaseMapping[UpperCaseEntry(<<s[i - 1], s[i]>>)][2][2]>>
  ELSE IF UpperCaseEntry(<<s[i]>>) > 0 THEN UpperCaseMapping[UpperCaseEntry(<<s[i]>>)][2]
  ELSE <<s[i]>>

RECURSIVE UpperCaseFrom(_, _, _)
UpperCaseFrom(s, a, b) ==
  IF a > b THEN <<>>
  ELSE IF a = b THEN UpperCaseAt(s, a)
  ELSE UpperCaseFrom(s, a, (a + b) \div 2) \o UpperCaseFrom(s, (a + b) \div 2 + 1, b)

\* String.prototype.toUpperCase
ToUpperCase(s) == UpperCaseFrom(s, 1, Len(s))

\* req.headers['authorization'] is undefined when the request has no such
\* header, and the header's text otherwise.
NoHeader == Undefined

\* s.split(' '): the pieces of s between its spaces, empty pieces included.
RECURSIVE Split(_)
Split(s) ==
  IF \A i \in 1..Len(s) : s[i] # " " THEN <<s>>
  ELSE LET i == CHOOSE x \in 1..Len(s) : s[x] = " " /\ \A y \in 1..(x - 1) : s[y] # " "
       IN <<SubSeq(s, 1, i - 1)>> \o Split(SubSeq(s, i + 1, Len(s)))

\* authHeader && authHeader.split(' ')[1]: an absent or empty header is the
\* token itself; a header of one piece has no [1].
TokenOf(authHeader) ==
  IF ~Truthy(authHeader) THEN authHeader
  ELSE LET parts == Split(authHeader.s)
       IN IF Len(parts) >= 2 THEN Str(parts[2]) ELSE Undefined

\* token == null
TokenMissing(authHeader) == TokenOf(authHeader).ty \in {"undefined", "null"}

\* A token this server signed that has not expired, and one it did not sign.
SignedToken == <<"s", "i", "g", "n", "e", "d">>
ForgedToken == <<"f", "o", "r", "g", "e", "d">>

\* Variant: the verification error is ignored.
VerifyOk_AnyToken(token) == TRUE

\* jwt.verify(token, secretKey, cb) calls cb without an error: the token was
\* signed with the secret and has not expired.
VerifyOk(token) == token = Str(SignedToken)

(***************************************************************************)
(* Bounds and inputs                                                       *)
(***************************************************************************)
\* Requests the server handles at the same time.
NReq == 2
\* The clock stops after this many freshness windows.
MaxWindows == 1
MaxNow == MaxWindows * CACHE_TTL

Reqs == 1..NReq
Routes == {"stock", "analyze"}
\* req.params.symbol
Params == {<<"t", "c", "s">>}
\* The authorization header: absent, empty, "Bearer" alone, "Bearer " and a
\* token signed by this server and still valid, "Bearer " and any other token.
Bearer == <<"B", "e", "a", "r", "e", "r">>
BearerSigned == Str(Bearer \o <<" ">> \o SignedToken)
BearerForged == Str(Bearer \o <<" ">> \o ForgedToken)
Headers == {NoHeader, Str(<<>>), Str(Bearer), BearerSigned, BearerForged}
\* The clock moves by one of these between two steps of the server.
TickSteps == {CACHE_TTL - 1, CACHE_TTL}

\* Every field draws the same Math.random() value: 0 or 0.9.
UniformDraws == {[f \in NumFields |-> Tenth(t)] : t \in {0, 9}}
\* One field draws 0 and the others 0.9, or the reverse; or every field draws
\* the same value, any of RandomValues.
OneOffDraws ==
  {[f \in NumFields |-> random] : random \in RandomValues}
  \cup {[g \in NumFields |-> IF g = f THEN Tenth(t) ELSE Tenth(9 - t)] : f \in NumFields, t \in {0, 9}}

Acme == <<"A", "c", "m", "e">>
\* "s" in double quotes, and "k":text, as they stand in a JSON text.
Quoted(s) == <<"\"">> \o s \o <<"\"">>
MemberText(k, text) == Quoted(PropertyKey[k]) \o <<":">> \o text
\* {"stockName":"Acme","symbol":"ACME","currentPrice":42}
AcmeObject ==
  <<"{">> \o MemberText("stockName", Quoted(Acme)) \o <<",">>
  \o MemberText("symbol", Quoted(<<"A", "C", "M", "E">>)) \o <<",">>
  \o MemberText("currentPrice", <<"4", "2">>) \o <<"}">>
Sure == <<"S", "u", "r", "e", "!">>
\* Sure! {"stockName":"Acme","symbol":"ACME","currentPrice":42}
AcmeReply == Sure \o <<" ">> \o AcmeObject
\* White space only, and prose with no JSON in it.
Blank == <<" ", "\n">>
Prose == <<"N", "o", " ", "d", "a", "t", "a">>

\* The replies the concurrent specification draws from.
CoreReplies ==
  {Rejected, NoText, Replied(Blank), Replied(Prose), Replied(<<"4", "2">>), Replied(AcmeReply)}

\* Replies with no brace in them, which JSON.parse reads as a number, a string,
\* a boolean, null or an array: 42, 0, "Acme", true, false, null, [], [1,2]
\* after a space.
NonObjectTexts ==
  {<<"4", "2">>, <<"0">>, Quoted(Acme), <<"t", "r", "u", "e">>, <<"f", "a", "l", "s", "e">>,
   <<"n", "u", "l", "l">>, <<"[", "]">>, <<" ", "[", "1", ",", "2", "]">>}

\* Prose before a JSON object, the objects, and text after it: nothing, " ok",
\* " see {note", " note }", " {note}", " {"currentPrice":1}".
Prefixes == {<<>>, Sure \o <<" ">>}
EmbeddedObjects == {AcmeObject, <<"{", "}">>}
Suffixes ==
  {<<>>, <<" ", "o", "k">>, <<" ", "s", "e", "e", " ", "{", "n", "o", "t", "e">>,
   <<" ", "n", "o", "t", "e", " ", "}">>, <<" ", "{", "n", "o", "t", "e", "}">>,
   <<" ", "{">> \o MemberText("currentPrice", <<"1">>) \o <<"}">>}
EmbeddedTexts == {pre \o o \o suf : pre \in Prefixes, o \in EmbeddedObjects, suf \in Suffixes}

\* {"roe":7}
Roe7 == <<"{">> \o MemberText("roe", <<"7">>) \o <<"}">>
\* Texts with a brace inside a JSON string: "{" {"roe":7}, {"roe":7} "}",
\* "a{b}c", ["{}"], {"name":"a}b"}.
BraceInStringTexts ==
  {Quoted(<<"{">>) \o <<" ">> \o Roe7, Roe7 \o <<" ">> \o Quoted(<<"}">>),
   Quoted(<<"a", "{", "b", "}", "c">>), <<"[">> \o Quoted(<<"{", "}">>) \o <<"]">>,
   <<"{">> \o MemberText("name", Quoted(<<"a", "}", "b">>)) \o <<"}">>}
\* Texts with white space that is none for JSON.parse: a form feed alone, a
\* no-break space alone, a form feed before [], a no-break space inside an
\* object, and a tab and line breaks inside one.
WhiteSpaceTexts ==
  {<<"\f">>, <<NBSP>>, <<"\f", "[", "]">>,
   <<"{", NBSP>> \o MemberText("roe", <<"7">>) \o <<"}">>,
   <<"{", "\n", "\t">> \o MemberText("roe", <<" ", "7">>) \o <<"\r", "\n", "}">>}

\* The keys getStockMetrics reads and the values a reply gives one of them,
\* each with the text that stands for it in the reply.
Keys == NumFields \cup {"stockName", "name", "symbol"}
EmptyObject == Obj(NoProps)
EmptyArray == Arr(<<>>)
FieldSources ==
  {<<Null, <<"n", "u", "l", "l">>>>, <<Num(0), <<"0">>>>, <<Num(4200), <<"4", "2">>>>,
   <<Num(-150), <<"-", "1", ".", "5">>>>, <<Str(<<"4", "2">>), Quoted(<<"4", "2">>)>>,
   <<Str(<<"0">>), Quoted(<<"0">>)>>, <<Str(<<"N", "/", "A">>), Quoted(<<"N", "/", "A">>)>>,
   <<Str(<<>>), Quoted(<<>>)>>, <<Bool(TRUE), <<"t", "r", "u", "e">>>>,
   <<Bool(FALSE), <<"f", "a", "l", "s", "e">>>>, <<EmptyObject, <<"{", "}">>>>,
   <<EmptyArray, <<"[", "]">>>>,
   <<Str(<<"4", ".", "5">>), Quoted(<<"4", ".", "5">>)>>,
   <<Str(<<"-", "1">>), Quoted(<<"-", "1">>)>>,
   <<Str(<<" ", "4", "2", " ">>), Quoted(<<" ", "4", "2", " ">>)>>,
   <<Str(<<"1", "e", "2">>), Quoted(<<"1", "e", "2">>)>>,
   <<Str(<<"0", "x", "1", "0">>), Quoted(<<"0", "x", "1", "0">>)>>,
   <<Str(<<" ">>), Quoted(<<" ">>)>>,
   <<Str(<<"I", "n", "f", "i", "n", "i", "t", "y">>),
     Quoted(<<"I", "n", "f", "i", "n", "i", "t", "y">>)>>,
   <<Arr(<<Str(<<"4", ".", "5">>)>>), <<"[">> \o Quoted(<<"4", ".", "5">>) \o <<"]">>>>}
FieldValues == {p[1] : p \in FieldSources}
ScalarValues == {v \in FieldValues : v.ty \notin {"object", "array"}}
SourceText(v) == (CHOOSE p \in FieldSources : p[1] = v)[2]
\* {"k":v}
OneMember(k, v) == <<"{">> \o MemberText(k, SourceText(v)) \o <<"}">>
OneMemberTexts == {OneMember(k, v) : k \in Keys, v \in FieldValues}

\* Numerals that are no double as they stand, and the roe of the record when
\* the reply gives one of them as roe (Undefined: a placeholder): 2e-324,
\* "2e-324", 0.10000000000000001, 9007199254740993.
TwoEMinus324 == <<"2", "e", "-", "3", "2", "4">>
RoundedSources ==
  {<<TwoEMinus324, Undefined>>, <<Quoted(TwoEMinus324), Num(0)>>,
   <<<<"0", ".", "1">> \o DigitChars(Zeros(15)) \o <<"1">>, Num(10)>>,
   <<DigitChars(<<9, 0, 0, 7, 1, 9, 9, 2, 5, 4, 7, 4, 0, 9, 9, 3>>),
     Sci(1, DigitChars(<<9, 0, 0, 7, 1, 9, 9, 2, 5, 4, 7, 4, 0, 9, 9, 2>>), 0)>>}
\* {"roe":numeral}
RoundedText(p) == <<"{">> \o MemberText("roe", p[1]) \o <<"}">>

\* The replies the single-retrieval specification draws from.
WideReplies ==
  {Rejected, NoText, NoResponse, Replied(<<>>), Replied(Blank), Replied(Prose)}
  \cup {Replied(t) : t \in NonObjectTexts \cup EmbeddedTexts \cup OneMemberTexts
                           \cup BraceInStringTexts \cup WhiteSpaceTexts}
  \cup {Replied(RoundedText(p)) : p \in RoundedSources}

\* The replies to the recommendation prompt: "BUY\n82", prose, nothing.
Buy82 == <<"B", "U", "Y", "\n", "8", "2">>
AnalysisReplies ==
  {Rejected, NoText, NoResponse, Replied(Buy82), Replied(Prose), Replied(<<>>)}

(***************************************************************************)
(* State                                                                   *)
(***************************************************************************)
VARIABLES
  now,            \* Date.now()
  stockCache,     \* the Map: symbol -> [data, timestamp]
  pc,             \* where each request is
  req,            \* each request's route, symbol parameter and authorization header
  call,           \* each request's getStockMetrics invocation
  reply,          \* what model.generateContent gave that invocation
  responses,      \* the responses each request has been sent
  analysisCalls,  \* recommendation calls each request has issued
  returned,       \* records getStockMetrics has returned and that are still fresh
  prompt,         \* the recommendation prompt each /analyze request has sent
  analysisReply,  \* what model.generateContent gave each /analyze request
  users,          \* the User collection
  apc,            \* where each /auth request is
  areq,           \* each /auth request's route and body
  afound,         \* what User.findOne gave each /auth request
  ahash,          \* the salt, then the password hash, each signup has been given
  aerror,         \* the error each /auth request's try block has thrown
  aresp           \* the responses each /auth request has been sent

coreVars ==
  <<now, stockCache, pc, req, call, reply, responses, analysisCalls, returned, prompt,
    analysisReply>>
authVars == <<users, apc, areq, afound, ahash, aerror, aresp>>
vars == <<coreVars, authVars>>

NoRequest == [route |-> "", param |-> <<>>, header |-> NoHeader]
NoReply == [kind |-> "none", text |-> <<>>]
NoPrompt == [none |-> TRUE]
NoBody == [route |-> "", email |-> <<>>, password |-> <<>>, hasEmail |-> FALSE,
           hasPassword |-> FALSE]
NoUser == [none |-> TRUE]
NoHash == [salt |-> "", password |-> <<>>, hashed |-> FALSE]
NoToken == [none |-> TRUE]
NoError == ""

\* state: "none" (not invoked), "pending" (awaiting the model), "returned", "threw".
\* checkAt, seenAt: Date.now() at the cache check and the timestamp of the entry
\* it found (-1: none).  storedAt: the timestamp of the entry holding the record
\* returned.  before: the records earlier invocations for the symbol had returned
\* and that were less than CACHE_TTL old when this one started.
NoCall ==
  [stockSymbol |-> <<>>, state |-> "none", checkAt |-> -1, seenAt |-> -1, hit |-> FALSE,
   reads |-> 0, calls |-> 0, writes |-> 0, data |-> NoData, storedAt |-> -1,
   message |-> NoData, errors |-> 0, before |-> {}]

Init ==
  /\ now = 0
  /\ stockCache = [k \in {} |-> Undefined]
  /\ pc = [r \in Reqs |-> "idle"]
  /\ req = [r \in Reqs |-> NoRequest]
  /\ call = [r \in Reqs |-> NoCall]
  /\ reply = [r \in Reqs |-> NoReply]
  /\ responses = [r \in Reqs |-> <<>>]
  /\ analysisCalls = [r \in Reqs |-> 0]
  /\ returned = {}
  /\ prompt = [r \in Reqs |-> NoPrompt]
  /\ analysisReply = [r \in Reqs |-> NoReply]
  /\ users = {}
  /\ apc = [r \in Reqs |-> "idle"]
  /\ areq = [r \in Reqs |-> NoBody]
  /\ afound = [r \in Reqs |-> NoUser]
  /\ ahash = [r \in Reqs |-> NoHash]
  /\ aerror = [r \in Reqs |-> NoError]
  /\ aresp = [r \in Reqs |-> <<>>]

Response(status, kind, value) == [status |-> status, kind |-> kind, value |-> value]

\* Date.now() moves on.
Tick(d) ==
  /\ now + d <= MaxNow
  /\ now' = now + d
  /\ returned' = {h \in returned : now + d - h.storedAt < CACHE_TTL}
  /\ UNCHANGED <<stockCache, pc, req, call, reply, responses, analysisCalls, prompt,
                 analysisReply, authVars>>

\* A request reaches the server.
Arrive(r, route, param, header) ==
  /\ pc[r] \in {"idle", "done"}
  /\ pc' = [pc EXCEPT ![r] = "auth"]
  /\ req' = [req EXCEPT ![r] = [route |-> route, param |-> param, header |-> header]]
  /\ call' = [call EXCEPT ![r] = NoCall]
  /\ reply' = [reply EXCEPT ![r] = NoReply]
  /\ responses' = [responses EXCEPT ![r] = <<>>]
  /\ analysisCalls' = [analysisCalls EXCEPT ![r] = 0]
  /\ prompt' = [prompt EXCEPT ![r] = NoPrompt]
  /\ analysisReply' = [analysisReply EXCEPT ![r] = NoReply]
  /\ UNCHANGED <<now, stockCache, returned, authVars>>

\* authenticateToken: 401 without a token, 403 when verification fails, next()
\* otherwise.
AuthenticateToken(r) ==
  /\ pc[r] = "auth"
  /\ IF TokenMissing(req[r].header)
     THEN /\ responses' = [responses EXCEPT ![r] =
                 Append(@, Response(401, "error", "Access denied. No token provided."))]
          /\ pc' = [pc EXCEPT ![r] = "done"]
     ELSE IF ~VerifyOk(TokenOf(req[r].header))
     THEN /\ responses' = [responses EXCEPT ![r] =
                 Append(@, Response(403, "error", "Invalid token."))]
          /\ pc' = [pc EXCEPT ![r] = "done"]
     ELSE /\ pc' = [pc EXCEPT ![r] = "route"]
          /\ UNCHANGED responses
  /\ UNCHANGED <<now, stockCache, req, call, reply, analysisCalls, returned, prompt,
                 analysisReply, authVars>>

\* Variant: the prompt names the symbol and carries none of the record.
AnalysisPrompt_NoMetrics(symbol, stockData) ==
  [stockName |-> Undefined, symbol |-> symbol,
   currentPrice |-> Undefined, dayHigh |-> Undefined, dayLow |-> Undefined,
   peRatio |-> Undefined, roe |-> Undefined, debtToEquity |-> Undefined,
   profitMargins |-> Undefined, revenueGrowth |-> Undefined]

\* The recommendation prompt of GET /analyze/:symbol: the record's name and
\* eight figures, and the handler's own upper-cased symbol.
AnalysisPrompt(symbol, stockData) ==
  [stockName |-> stockData.stockName, symbol |-> symbol,
   currentPrice |-> stockData.currentPrice, dayHigh |-> stockData.dayHigh,
   dayLow |-> stockData.dayLow, peRatio |-> stockData.peRatio, roe |-> stockData.roe,
   debtToEquity |-> stockData.debtToEquity, profitMargins |-> stockData.profitMargins,
   revenueGrowth |-> stockData.revenueGrowth]

\* What a route handler does when it resumes after `await
\* getStockMetrics(symbol)`: /stock answers, /analyze sends the recommendation
\* prompt or answers 500.
AfterMetrics(r, ok, data, message) ==
  IF req[r].route = "stock"
  THEN /\ responses' = [responses EXCEPT ![r] =
              Append(@, IF ok THEN Response(200, "stockData", data)
                        ELSE Response(500, "error", message))]
       /\ pc' = [pc EXCEPT ![r] = "done"]
       /\ UNCHANGED <<analysisCalls, prompt>>
  ELSE IF ok
  THEN /\ analysisCalls' = [analysisCalls EXCEPT ![r] = @ + 1]
       /\ prompt' = [prompt EXCEPT ![r] = AnalysisPrompt(ToUpperCase(req[r].param), data)]
       /\ pc' = [pc EXCEPT ![r] = "awaitAnalysis"]
       /\ UNCHANGED responses
  ELSE /\ responses' = [responses EXCEPT ![r] =
              Append(@, Response(500, "error",
                         [template |-> "AI analysis failed. ${error.message}",
                          inner |-> message]))]
       /\ pc' = [pc EXCEPT ![r] = "done"]
       /\ UNCHANGED <<analysisCalls, prompt>>

\* The handler runs up to its first suspension: it upper-cases the symbol and
\* getStockMetrics checks the cache; on a fresh hit the record is returned at
\* once and the handler awaits it, otherwise the prompt is sent and the
\* invocation awaits the model.
GetStockMetricsCheck(r) ==
  /\ pc[r] = "route"
  /\ LET stockSymbol == ToUpperCase(req[r].param)
         cached == MapGet(stockCache, stockSymbol)
         base == [call[r] EXCEPT
                    !.stockSymbol = stockSymbol, !.checkAt = now, !.reads = @ + 1,
                    !.seenAt = IF cached = Undefined THEN -1 ELSE cached.timestamp,
                    !.before = {h \in returned : h.stockSymbol = stockSymbol}]
     IN IF IsFresh(cached, now)
        THEN /\ call' = [call EXCEPT ![r] =
                    [base EXCEPT !.state = "returned", !.hit = TRUE,
                                 !.data = cached.data, !.storedAt = cached.timestamp]]
             /\ returned' = returned \cup
                    {[stockSymbol |-> stockSymbol, data |-> cached.data,
                      storedAt |-> cached.timestamp, overwritten |-> FALSE]}
             /\ pc' = [pc EXCEPT ![r] = "resume"]
        ELSE /\ call' = [call EXCEPT ![r] = [base EXCEPT !.state = "pending", !.calls = @ + 1]]
             /\ pc' = [pc EXCEPT ![r] = "awaitMetrics"]
             /\ UNCHANGED returned
  /\ UNCHANGED <<now, stockCache, req, reply, responses, analysisCalls, prompt, analysisReply,
                 authVars>>

\* What getStockMetrics does with the outcome res of the retrieval: it stores
\* and returns the record, or throws.
GetStockMetricsSettled(r, stockSymbol, res) ==
  /\ stockCache' = CacheAfter(stockCache, stockSymbol, res, now)
  /\ IF res.ok
     THEN /\ call' = [call EXCEPT ![r] =
                 [@ EXCEPT !.state = "returned", !.data = res.data,
                           !.storedAt = now, !.writes = @ + 1]]
          /\ returned' =
               {[h EXCEPT !.overwritten = @ \/ h.stockSymbol = stockSymbol] :
                  h \in returned}
               \cup {[stockSymbol |-> stockSymbol, data |-> res.data,
                      storedAt |-> now, overwritten |-> FALSE]}
     ELSE /\ call' = [call EXCEPT ![r] =
                 [@ EXCEPT !.state = "threw", !.message = res.message,
                           !.errors = @ + 1]]
          /\ UNCHANGED returned

\* model.generateContent settles for getStockMetrics, which parses, normalizes,
\* stores and returns, or throws; the route handler resumes in a later turn.
GetStockMetricsSettle(r, rep, rnd) ==
  /\ pc[r] = "awaitMetrics"
  /\ reply' = [reply EXCEPT ![r] = rep]
  /\ GetStockMetricsSettled(r, call[r].stockSymbol,
                            Retrieve(rep, call[r].stockSymbol, rnd))
  /\ pc' = [pc EXCEPT ![r] = "resume"]
  /\ UNCHANGED <<now, req, responses, analysisCalls, prompt, analysisReply, authVars>>

\* The route handler resumes after `await getStockMetrics(symbol)` with the
\* record returned or in its catch block with the error thrown.
ResumeAfterMetrics(r) ==
  /\ pc[r] = "resume"
  /\ AfterMetrics(r, call[r].state = "returned", call[r].data, call[r].message)
  /\ UNCHANGED <<now, stockCache, req, call, reply, returned, analysisReply, authVars>>

\* Variant: the reply is answered only when it has the two lines asked for.
AnalysisResponse_Validated(rep) ==
  IF rep.kind = "text" /\ MatchAt(rep.text, 1, <<"B", "U", "Y", "\n">>)
     /\ Len(rep.text) > 4 /\ \A i \in 5..Len(rep.text) : IsDigit(rep.text[i])
  THEN Response(200, "geminiResponse", rep.text)
  ELSE Response(500, "error",
         [template |-> "AI analysis failed. ${error.message}", inner |-> ModelError(rep)])

\* The answer of GET /analyze/:symbol to what the recommendation call gave:
\* result.response.text() as it is, or 500 when the call or the read throws.
AnalysisResponse(rep) ==
  IF rep.kind = "text"
  THEN Response(200, "geminiResponse", rep.text)
  ELSE Response(500, "error",
         [template |-> "AI analysis failed. ${error.message}", inner |-> ModelError(rep)])

\* model.generateContent settles for /analyze: the reply text is sent as it is;
\* a rejection, or a result without a response, is answered 500.
AnalysisSettle(r, rep) ==
  /\ pc[r] = "awaitAnalysis"
  /\ analysisReply' = [analysisReply EXCEPT ![r] = rep]
  /\ responses' = [responses EXCEPT ![r] = Append(@, AnalysisResponse(rep))]
  /\ pc' = [pc EXCEPT ![r] = "done"]
  /\ UNCHANGED <<now, stockCache, req, call, reply, analysisCalls, returned, prompt, authVars>>

Next ==
  \/ \E d \in TickSteps : Tick(d)
  \/ \E r \in Reqs, route \in Routes, param \in Params, header \in Headers :
       Arrive(r, route, param, header)
  \/ \E r \in Reqs : AuthenticateToken(r)
  \/ \E r \in Reqs : GetStockMetricsCheck(r)
  \/ \E r \in Reqs, rep \in CoreReplies, rnd \in UniformDraws : GetStockMetricsSettle(r, rep, rnd)
  \/ \E r \in Reqs : ResumeAfterMetrics(r)
  \/ \E r \in Reqs, rep \in AnalysisReplies : AnalysisSettle(r, rep)

Spec == Init /\ [][Next]_vars

\* One authenticated GET /stock request against an empty cache, with the wide
\* choice of replies and of placeholder draws.
NextRetrieve ==
  \/ \E param \in Params : pc[1] = "idle" /\ Arrive(1, "stock", param, BearerSigned)
  \/ AuthenticateToken(1)
  \/ GetStockMetricsCheck(1)
  \/ \E rep \in WideReplies, rnd \in OneOffDraws : GetStockMetricsSettle(1, rep, rnd)
  \/ ResumeAfterMetrics(1)

SpecRetrieve == Init /\ [][NextRetrieve]_vars

\* Authenticated GET /stock requests for two symbols, tcs and one that is
\* written Ss or with the one letter sharp s (U+00DF), whose capital form is
\* the two letters SS, with a reply that names no stock, so that a record
\* tells its key.
SharpS == Unit(223)
KeyParams == {<<"t", "c", "s">>, <<"S", "s">>, <<SharpS>>}
KeyReplies == {Rejected, Replied(<<"{", "}">>)}
NextKeys ==
  \/ \E d \in TickSteps : Tick(d)
  \/ \E r \in Reqs, param \in KeyParams : Arrive(r, "stock", param, BearerSigned)
  \/ \E r \in Reqs : AuthenticateToken(r)
  \/ \E r \in Reqs : GetStockMetricsCheck(r)
  \/ \E r \in Reqs, rep \in KeyReplies, rnd \in UniformDraws : GetStockMetricsSettle(r, rep, rnd)
  \/ \E r \in Reqs : ResumeAfterMetrics(r)

SpecKeys == Init /\ [][NextKeys]_vars

(***************************************************************************)
(* POST /auth/signup and POST /auth/login                                  *)
(***************************************************************************)
\* The characters that toLowerCase changes outside ASCII, each with what it
\* becomes (Unicode 17 full case mapping).  A character beyond U+FFFF is its
\* two surrogates.
LowerCaseMapping ==
  <<<< <<"<<192>>">>, <<"<<224>>">> >>, << <<"<<193>>">>, <<"<<225>>">> >>,
    << <<"<<194>>">>, <<"<<226>>">> >>, << <<"<<195>>">>, <<"<<227>>">> >>,
    << <<"<<196>>">>, <<"<<228>>">> >>, << <<"<<197>>">>, <<"<<229>>">> >>,
    << <<"<<198>>">>, <<"<<230>>">> >>, << <<"<<199>>">>, <<"<<231>>">> >>,
    << <<"<<200>>">>, <<"<<232>>">> >>, << <<"<<201>>">>, <<"<<233>>">> >>,
    << <<"<<202>>">>, <<"<<234>>">> >>, << <<"<<203>>">>, <<"<<235>>">> >>,
    << <<"<<204>>">>, <<"<<236>>">> >>, << <<"<<205>>">>, <<"<<237>>">> >>,
    << <<"<<206>>">>, <<"<<238>>">> >>, << <<"<<207>>">>, <<"<<239>>">> >>,
    << <<"<<208>>">>, <<"<<240>>">> >>, << <<"<<209>>">>, <<"<<241>>">> >>,
    << <<"<<210>>">>, <<"<<242>>">> >>, << <<"<<211>>">>, <<"<<243>>">> >>,
    << <<"<<212>>">>, <<"<<244>>">> >>, << <<"<<213>>">>, <<"<<245>>">> >>,
    << <<"<<214>>">>, <<"<<246>>">> >>, << <<"<<216>>">>, <<"<<248>>">> >>,
    << <<"<<217>>">>, <<"<<249>>">> >>, << <<"<<218>>">>, <<"<<250>>">> >>,
    << <<"<<219>>">>, <<"<<251>>">> >>, << <<"<<220>>">>, <<"<<252>>">> >>,
    << <<"<<221>>">>, <<"<<253>>">> >>, << <<"<<222>>">>, <<"<<254>>">> >>,
    << <<"<<256>>">>, <<"<<257>>">> >>, << <<"<<258>>">>, <<"<<259>>">> >>,
    << <<"<<260>>">>, <<"<<261>>">> >>, << <<"<<262>>">>, <<"<<263>>">> >>,
    << <<"<<264>>">>, <<"<<265>>">> >>, << <<"<<266>>">>, <<"<<267>>">> >>,
    << <<"<<268>>">>, <<"<<269>>">> >>, << <<"<<270>>">>, <<"<<271>>">> >>,
    << <<"<<272>>">>, <<"<<273>>">> >>, << <<"<<274>>">>, <<"<<275>>">> >>,
    << <<"<<276>>">>, <<"<<277>>">> >>, << <<"<<278>>">>, <<"<<279>>">> >>,
    << <<"<<280>>">>, <<"<<281>>">> >>, << <<"<<282>>">>, <<"<<283>>">> >>,
    << <<"<<284>>">>, <<"<<285>>">> >>, << <<"<<286>>">>, <<"<<287>>">> >>,
    << <<"<<288>>">>, <<"<<289>>">> >>, << <<"<<290>>">>, <<"<<291>>">> >>,
    << <<"<<292>>">>, <<"<<293>>">> >>, << <<"<<294>>">>, <<"<<295>>">> >>,
    << <<"<<296>>">>, <<"<<297>>">> >>, << <<"<<298>>">>, <<"<<299>>">> >>,
    << <<"<<300>>">>, <<"<<301>>">> >>, << <<"<<302>>">>, <<"<<303>>">> >>,
    << <<"<<304>>">>, <<"i", "<<775>>">> >>, << <<"<<306>>">>, <<"<<307>>">> >>,
    << <<"<<308>>">>, <<"<<309>>">> >>, << <<"<<310>>">>, <<"<<311>>">> >>,
    << <<"<<313>>">>, <<"<<314>>">> >>, << <<"<<315>>">>, <<"<<316>>">> >>,
    << <<"<<317>>">>, <<"<<318>>">> >>, << <<"<<319>>">>, <<"<<320>>">> >>,
    << <<"<<321>>">>, <<"<<322>>">> >>, << <<"<<323>>">>, <<"<<324>>">> >>,
    << <<"<<325>>">>, <<"<<326>>">> >>, << <<"<<327>>">>, <<"<<328>>">> >>,
    << <<"<<330>>">>, <<"<<331>>">> >>, << <<"<<332>>">>, <<"<<333>>">> >>,
    << <<"<<334>>">>, <<"<<335>>">> >>, << <<"<<336>>">>, <<"<<337>>">> >>,
    << <<"<<338>>">>, <<"<<339>>">> >>, << <<"<<340>>">>, <<"<<341>>">> >>,
    << <<"<<342>>">>, <<"<<343>>">> >>, << <<"<<344>>">>, <<"<<345>>">> >>,
    << <<"<<346>>">>, <<"<<347>>">> >>, << <<"<<348>>">>, <<"<<349>>">> >>,
    << <<"<<350>>">>, <<"<<351>>">> >>, << <<"<<352>>">>, <<"<<353>>">> >>,
    << <<"<<354>>">>, <<"<<355>>">> >>, << <<"<<356>>">>, <<"<<357>>">> >>,
    << <<"<<358>>">>, <<"<<359>>">> >>, << <<"<<360>>">>, <<"<<361>>">> >>,
    << <<"<<362>>">>, <<"<<363>>">> >>, << <<"<<364>>">>, <<"<<365>>">> >>,
    << <<"<<366>>">>, <<"<<367>>">> >>, << <<"<<368>>">>, <<"<<369>>">> >>,
    << <<"<<370>>">>, <<"<<371>>">> >>, << <<"<<372>>">>, <<"<<373>>">> >>,
    << <<"<<374>>">>, <<"<<375>>">> >>, << <<"<<376>>">>, <<"<<255>>">> >>,
    << <<"<<377>>">>, <<"<<378>>">> >>, << <<"<<379>>">>, <<"<<380>>">> >>,
    << <<"<<381>>">>, <<"<<382>>">> >>, << <<"<<385>>">>, <<"<<595>>">> >>,
    << <<"<<386>>">>, <<"<<387>>">> >>, << <<"<<388>>">>, <<"<<389>>">> >>,
    << <<"<<390>>">>, <<"<<596>>">> >>, << <<"<<391>>">>, <<"<<392>>">> >>,
    << <<"<<393>>">>, <<"<<598>>">> >>, << <<"<<394>>">>, <<"<<599>>">> >>,
    << <<"<<395>>">>, <<"<<396>>">> >>, << <<"<<398>>">>, <<"<<477>>">> >>,
    << <<"<<399>>">>, <<"<<601>>">> >>, << <<"<<400>>">>, <<"<<603>>">> >>,
    << <<"<<401>>">>, <<"<<402>>">> >>, << <<"<<403>>">>, <<"<<608>>">> >>,
    << <<"<<404>>">>, <<"<<611>>">> >>, << <<"<<406>>">>, <<"<<617>>">> >>,
    << <<"<<407>>">>, <<"<<616>>">> >>, << <<"<<408>>">>, <<"<<409>>">> >>,
    << <<"<<412>>">>, <<"<<623>>">> >>, << <<"<<413>>">>, <<"<<626>>">> >>,
    << <<"<<415>>">>, <<"<<629>>">> >>, << <<"<<416>>">>, <<"<<417>>">> >>,
    << <<"<<418>>">>, <<"<<419>>">> >>, << <<"<<420>>">>, <<"<<421>>">> >>,
    << <<"<<422>>">>, <<"<<640>>">> >>, << <<"<<423>>">>, <<"<<424>>">> >>,
    << <<"<<425>>">>, <<"<<643>>">> >>, << <<"<<428>>">>, <<"<<429>>">> >>,
    << <<"<<430>>">>, <<"<<648>>">> >>, << <<"<<431>>">>, <<"<<432>>">> >>,
    << <<"<<433>>">>, <<"<<650>>">> >>, << <<"<<434>>">>, <<"<<651>>">> >>,
    << <<"<<435>>">>, <<"<<436>>">> >>, << <<"<<437>>">>, <<"<<438>>">> >>,
    << <<"<<439>>">>, <<"<<658>>">> >>, << <<"<<440>>">>, <<"<<441>>">> >>,
    << <<"<<444>>">>, <<"<<445>>">> >>, << <<"<<452>>">>, <<"<<454>>">> >>,
    << <<"<<453>>">>, <<"<<454>>">> >>, << <<"<<455>>">>, <<"<<457>>">> >>,
    << <<"<<456>>">>, <<"<<457>>">> >>, << <<"<<458>>">>, <<"<<460>>">> >>,
    << <<"<<459>>">>, <<"<<460>>">> >>, << <<"<<461>>">>, <<"<<462>>">> >>,
    << <<"<<463>>">>, <<"<<464>>">> >>, << <<"<<465>>">>, <<"<<466>>">> >>,
    << <<"<<467>>">>, <<"<<468>>">> >>, << <<"<<469>>">>, <<"<<470>>">> >>,
    << <<"<<471>>">>, <<"<<472>>">> >>, << <<"<<473>>">>, <<"<<474>>">> >>,
    << <<"<<475>>">>, <<"<<476>>">> >>, << <<"<<478>>">>, <<"<<479>>">> >>,
    << <<"<<480>>">>, <<"<<481>>">> >>, << <<"<<482>>">>, <<"<<483>>">> >>,
    << <<"<<484>>">>, <<"<<485>>">> >>, << <<"<<486>>">>, <<"<<487>>">> >>,
    << <<"<<488>>">>, <<"<<489>>">> >>, << <<"<<490>>">>, <<"<<491>>">> >>,
    << <<"<<492>>">>, <<"<<493>>">> >>, << <<"<<494>>">>, <<"<<495>>">> >>,
    << <<"<<497>>">>, <<"<<499>>">> >>, << <<"<<498>>">>, <<"<<499>>">> >>,
    << <<"<<500>>">>, <<"<<501>>">> >>, << <<"<<502>>">>, <<"<<405>>">> >>,
    << <<"<<503>>">>, <<"<<447>>">> >>, << <<"<<504>>">>, <<"<<505>>">> >>,
    << <<"<<506>>">>, <<"<<507>>">> >>, << <<"<<508>>">>, <<"<<509>>">> >>,
    << <<"<<510>>">>, <<"<<511>>">> >>, << <<"<<512>>">>, <<"<<513>>">> >>,
    << <<"<<514>>">>, <<"<<515>>">> >>, << <<"<<516>>">>, <<"<<517>>">> >>,
    << <<"<<518>>">>, <<"<<519>>">> >>, << <<"<<520>>">>, <<"<<521>>">> >>,
    << <<"<<522>>">>, <<"<<523>>">> >>, << <<"<<524>>">>, <<"<<525>>">> >>,
    << <<"<<526>>">>, <<"<<527>>">> >>, << <<"<<528>>">>, <<"<<529>>">> >>,
    << <<"<<530>>">>, <<"<<531>>">> >>, << <<"<<532>>">>, <<"<<533>>">> >>,
    << <<"<<534>>">>, <<"<<535>>">> >>, << <<"<<536>>">>, <<"<<537>>">> >>,
    << <<"<<538>>">>, <<"<<539>>">> >>, << <<"<<540>>">>, <<"<<541>>">> >>,
    << <<"<<542>>">>, <<"<<543>>">> >>, << <<"<<544>>">>, <<"<<414>>">> >>,
    << <<"<<546>>">>, <<"<<547>>">> >>, << <<"<<548>>">>, <<"<<549>>">> >>,
    << <<"<<550>>">>, <<"<<551>>">> >>, << <<"<<552>>">>, <<"<<553>>">> >>,
    << <<"<<554>>">>, <<"<<555>>">> >>, << <<"<<556>>">>, <<"<<557>>">> >>,
    << <<"<<558>>">>, <<"<<559>>">> >>, << <<"<<560>>">>, <<"<<561>>">> >>,
    << <<"<<562>>">>, <<"<<563>>">> >>, << <<"<<570>>">>, <<"<<11365>>">> >>,
    << <<"<<571>>">>, <<"<<572>>">> >>, << <<"<<573>>">>, <<"<<410>>">> >>,
    << <<"<<574>>">>, <<"<<11366>>">> >>, << <<"<<577>>">>, <<"<<578>>">> >>,
    << <<"<<579>>">>, <<"<<384>>">> >>, << <<"<<580>>">>, <<"<<649>>">> >>,
    << <<"<<581>>">>, <<"<<652>>">> >>, << <<"<<582>>">>, <<"<<583>>">> >>,
    << <<"<<584>>">>, <<"<<585>>">> >>, << <<"<<586>>">>, <<"<<587>>">> >>,
    << <<"<<588>>">>, <<"<<589>>">> >>, << <<"<<590>>">>, <<"<<591>>">> >>,
    << <<"<<880>>">>, <<"<<881>>">> >>, << <<"<<882>>">>, <<"<<883>>">> >>,
    << <<"<<886>>">>, <<"<<887>>">> >>, << <<"<<895>>">>, <<"<<1011>>">> >>,
    << <<"<<902>>">>, <<"<<940>>">> >>, << <<"<<904>>">>, <<"<<941>>">> >>,
    << <<"<<905>>">>, <<"<<942>>">> >>, << <<"<<906>>">>, <<"<<943>>">> >>,
    << <<"<<908>>">>, <<"<<972>>">> >>, << <<"<<910>>">>, <<"<<973>>">> >>,
    << <<"<<911>>">>, <<"<<974>>">> >>, << <<"<<913>>">>, <<"<<945>>">> >>,
    << <<"<<914>>">>, <<"<<946>>">> >>, << <<"<<915>>">>, <<"<<947>>">> >>,
    << <<"<<916>>">>, <<"<<948>>">> >>, << <<"<<917>>">>, <<"<<949>>">> >>,
    << <<"<<918>>">>, <<"<<950>>">> >>, << <<"<<919>>">>, <<"<<951>>">> >>,
    << <<"<<920>>">>, <<"<<952>>">> >>, << <<"<<921>>">>, <<"<<953>>">> >>,
    << <<"<<922>>">>, <<"<<954>>">> >>, << <<"<<923>>">>, <<"<<955>>">> >>,
    << <<"<<924>>">>, <<"<<956>>">> >>, << <<"<<925>>">>, <<"<<957>>">> >>,
    << <<"<<926>>">>, <<"<<958>>">> >>, << <<"<<927>>">>, <<"<<959>>">> >>,
    << <<"<<928>>">>, <<"<<960>>">> >>, << <<"<<929>>">>, <<"<<961>>">> >>,
    << <<"<<931>>">>, <<"<<963>>">> >>, << <<"<<932>>">>, <<"<<964>>">> >>,
    << <<"<<933>>">>, <<"<<965>>">> >>, << <<"<<934>>">>, <<"<<966>>">> >>,
    << <<"<<935>>">>, <<"<<967>>">> >>, << <<"<<936>>">>, <<"<<968>>">> >>,
    << <<"<<937>>">>, <<"<<969>>">> >>, << <<"<<938>>">>, <<"<<970>>">> >>,
    << <<"<<939>>">>, <<"<<971>>">> >>, << <<"<<975>>">>, <<"<<983>>">> >>,
    << <<"<<984>>">>, <<"<<985>>">> >>, << <<"<<986>>">>, <<"<<987>>">> >>,
    << <<"<<988>>">>, <<"<<989>>">> >>, << <<"<<990>>">>, <<"<<991>>">> >>,
    << <<"<<992>>">>, <<"<<993>>">> >>, << <<"<<994>>">>, <<"<<995>>">> >>,
    << <<"<<996>>">>, <<"<<997>>">> >>, << <<"<<998>>">>, <<"<<999>>">> >>,
    << <<"<<1000>>">>, <<"<<1001>>">> >>, << <<"<<1002>>">>, <<"<<1003>>">> >>,
    << <<"<<1004>>">>, <<"<<1005>>">> >>, << <<"<<1006>>">>, <<"<<1007>>">> >>,
    << <<"<<1012>>">>, <<"<<952>>">> >>, << <<"<<1015>>">>, <<"<<1016>>">> >>,
    << <<"<<1017>>">>, <<"<<1010>>">> >>, << <<"<<1018>>">>, <<"<<1019>>">> >>,
    << <<"<<1021>>">>, <<"<<891>>">> >>, << <<"<<1022>>">>, <<"<<892>>">> >>,
    << <<"<<1023>>">>, <<"<<893>>">> >>, << <<"<<1024>>">>, <<"<<1104>>">> >>,
    << <<"<<1025>>">>, <<"<<1105>>">> >>, << <<"<<1026>>">>, <<"<<1106>>">> >>,
    << <<"<<1027>>">>, <<"<<1107>>">> >>, << <<"<<1028>>">>, <<"<<1108>>">> >>,
    << <<"<<1029>>">>, <<"<<1109>>">> >>, << <<"<<1030>>">>, <<"<<1110>>">> >>,
    << <<"<<1031>>">>, <<"<<1111>>">> >>, << <<"<<1032>>">>, <<"<<1112>>">> >>,
    << <<"<<1033>>">>, <<"<<1113>>">> >>, << <<"<<1034>>">>, <<"<<1114>>">> >>,
    << <<"<<1035>>">>, <<"<<1115>>">> >>, << <<"<<1036>>">>, <<"<<1116>>">> >>,
    << <<"<<1037>>">>, <<"<<1117>>">> >>, << <<"<<1038>>">>, <<"<<1118>>">> >>,
    << <<"<<1039>>">>, <<"<<1119>>">> >>, << <<"<<1040>>">>, <<"<<1072>>">> >>,
    << <<"<<1041>>">>, <<"<<1073>>">> >>, << <<"<<1042>>">>, <<"<<1074>>">> >>,
    << <<"<<1043>>">>, <<"<<1075>>">> >>, << <<"<<1044>>">>, <<"<<1076>>">> >>,
    << <<"<<1045>>">>, <<"<<1077>>">> >>, << <<"<<1046>>">>, <<"<<1078>>">> >>,
    << <<"<<1047>>">>, <<"<<1079>>">> >>, << <<"<<1048>>">>, <<"<<1080>>">> >>,
    << <<"<<1049>>">>, <<"<<1081>>">> >>, << <<"<<1050>>">>, <<"<<1082>>">> >>,
    << <<"<<1051>>">>, <<"<<1083>>">> >>, << <<"<<1052>>">>, <<"<<1084>>">> >>,
    << <<"<<1053>>">>, <<"<<1085>>">> >>, << <<"<<1054>>">>, <<"<<1086>>">> >>,
    << <<"<<1055>>">>, <<"<<1087>>">> >>, << <<"<<1056>>">>, <<"<<1088>>">> >>,
    << <<"<<1057>>">>, <<"<<1089>>">> >>, << <<"<<1058>>">>, <<"<<1090>>">> >>,
    << <<"<<1059>>">>, <<"<<1091>>">> >>, << <<"<<1060>>">>, <<"<<1092>>">> >>,
    << <<"<<1061>>">>, <<"<<1093>>">> >>, << <<"<<1062>>">>, <<"<<1094>>">> >>,
    << <<"<<1063>>">>, <<"<<1095>>">> >>, << <<"<<1064>>">>, <<"<<1096>>">> >>,
    << <<"<<1065>>">>, <<"<<1097>>">> >>, << <<"<<1066>>">>, <<"<<1098>>">> >>,
    << <<"<<1067>>">>, <<"<<1099>>">> >>, << <<"<<1068>>">>, <<"<<1100>>">> >>,
    << <<"<<1069>>">>, <<"<<1101>>">> >>, << <<"<<1070>>">>, <<"<<1102>>">> >>,
    << <<"<<1071>>">>, <<"<<1103>>">> >>, << <<"<<1120>>">>, <<"<<1121>>">> >>,
    << <<"<<1122>>">>, <<"<<1123>>">> >>, << <<"<<1124>>">>, <<"<<1125>>">> >>,
    << <<"<<1126>>">>, <<"<<1127>>">> >>, << <<"<<1128>>">>, <<"<<1129>>">> >>,
    << <<"<<1130>>">>, <<"<<1131>>">> >>, << <<"<<1132>>">>, <<"<<1133>>">> >>,
    << <<"<<1134>>">>, <<"<<1135>>">> >>, << <<"<<1136>>">>, <<"<<1137>>">> >>,
    << <<"<<1138>>">>, <<"<<1139>>">> >>, << <<"<<1140>>">>, <<"<<1141>>">> >>,
    << <<"<<1142>>">>, <<"<<1143>>">> >>, << <<"<<1144>>">>, <<"<<1145>>">> >>,
    << <<"<<1146>>">>, <<"<<1147>>">> >>, << <<"<<1148>>">>, <<"<<1149>>">> >>,
    << <<"<<1150>>">>, <<"<<1151>>">> >>, << <<"<<1152>>">>, <<"<<1153>>">> >>,
    << <<"<<1162>>">>, <<"<<1163>>">> >>, << <<"<<1164>>">>, <<"<<1165>>">> >>,
    << <<"<<1166>>">>, <<"<<1167>>">> >>, << <<"<<1168>>">>, <<"<<1169>>">> >>,
    << <<"<<1170>>">>, <<"<<1171>>">> >>, << <<"<<1172>>">>, <<"<<1173>>">> >>,
    << <<"<<1174>>">>, <<"<<1175>>">> >>, << <<"<<1176>>">>, <<"<<1177>>">> >>,
    << <<"<<1178>>">>, <<"<<1179>>">> >>, << <<"<<1180>>">>, <<"<<1181>>">> >>,
    << <<"<<1182>>">>, <<"<<1183>>">> >>, << <<"<<1184>>">>, <<"<<1185>>">> >>,
    << <<"<<1186>>">>, <<"<<1187>>">> >>, << <<"<<1188>>">>, <<"<<1189>>">> >>,
    << <<"<<1190>>">>, <<"<<1191>>">> >>, << <<"<<1192>>">>, <<"<<1193>>">> >>,
    << <<"<<1194>>">>, <<"<<1195>>">> >>, << <<"<<1196>>">>, <<"<<1197>>">> >>,
    << <<"<<1198>>">>, <<"<<1199>>">> >>, << <<"<<1200>>">>, <<"<<1201>>">> >>,
    << <<"<<1202>>">>, <<"<<1203>>">> >>, << <<"<<1204>>">>, <<"<<1205>>">> >>,
    << <<"<<1206>>">>, <<"<<1207>>">> >>, << <<"<<1208>>">>, <<"<<1209>>">> >>,
    << <<"<<1210>>">>, <<"<<1211>>">> >>, << <<"<<1212>>">>, <<"<<1213>>">> >>,
    << <<"<<1214>>">>, <<"<<1215>>">> >>, << <<"<<1216>>">>, <<"<<1231>>">> >>,
    << <<"<<1217>>">>, <<"<<1218>>">> >>, << <<"<<1219>>">>, <<"<<1220>>">> >>,
    << <<"<<1221>>">>, <<"<<1222>>">> >>, << <<"<<1223>>">>, <<"<<1224>>">> >>,
    << <<"<<1225>>">>, <<"<<1226>>">> >>, << <<"<<1227>>">>, <<"<<1228>>">> >>,
    << <<"<<1229>>">>, <<"<<1230>>">> >>, << <<"<<1232>>">>, <<"<<1233>>">> >>,
    << <<"<<1234>>">>, <<"<<1235>>">> >>, << <<"<<1236>>">>, <<"<<1237>>">> >>,
    << <<"<<1238>>">>, <<"<<1239>>">> >>, << <<"<<1240>>">>, <<"<<1241>>">> >>,
    << <<"<<1242>>">>, <<"<<1243>>">> >>, << <<"<<1244>>">>, <<"<<1245>>">> >>,
    << <<"<<1246>>">>, <<"<<1247>>">> >>, << <<"<<1248>>">>, <<"<<1249>>">> >>,
    << <<"<<1250>>">>, <<"<<1251>>">> >>, << <<"<<1252>>">>, <<"<<1253>>">> >>,
    << <<"<<1254>>">>, <<"<<1255>>">> >>, << <<"<<1256>>">>, <<"<<1257>>">> >>,
    << <<"<<1258>>">>, <<"<<1259>>">> >>, << <<"<<1260>>">>, <<"<<1261>>">> >>,
    << <<"<<1262>>">>, <<"<<1263>>">> >>, << <<"<<1264>>">>, <<"<<1265>>">> >>,
    << <<"<<1266>>">>, <<"<<1267>>">> >>, << <<"<<1268>>">>, <<"<<1269>>">> >>,
    << <<"<<1270>>">>, <<"<<1271>>">> >>, << <<"<<1272>>">>, <<"<<1273>>">> >>,
    << <<"<<1274>>">>, <<"<<1275>>">> >>, << <<"<<1276>>">>, <<"<<1277>>">> >>,
    << <<"<<1278>>">>, <<"<<1279>>">> >>, << <<"<<1280>>">>, <<"<<1281>>">> >>,
    << <<"<<1282>>">>, <<"<<1283>>">> >>, << <<"<<1284>>">>, <<"<<1285>>">> >>,
    << <<"<<1286>>">>, <<"<<1287>>">> >>, << <<"<<1288>>">>, <<"<<1289>>">> >>,
    << <<"<<1290>>">>, <<"<<1291>>">> >>, << <<"<<1292>>">>, <<"<<1293>>">> >>,
    << <<"<<1294>>">>, <<"<<1295>>">> >>, << <<"<<1296>>">>, <<"<<1297>>">> >>,
    << <<"<<1298>>">>, <<"<<1299>>">> >>, << <<"<<1300>>">>, <<"<<1301>>">> >>,
    << <<"<<1302>>">>, <<"<<1303>>">> >>, << <<"<<1304>>">>, <<"<<1305>>">> >>,
    << <<"<<1306>>">>, <<"<<1307>>">> >>, << <<"<<1308>>">>, <<"<<1309>>">> >>,
    << <<"<<1310>>">>, <<"<<1311>>">> >>, << <<"<<1312>>">>, <<"<<1313>>">> >>,
    << <<"<<1314>>">>, <<"<<1315>>">> >>, << <<"<<1316>>">>, <<"<<1317>>">> >>,
    << <<"<<1318>>">>, <<"<<1319>>">> >>, << <<"<<1320>>">>, <<"<<1321>>">> >>,
    << <<"<<1322>>">>, <<"<<1323>>">> >>, << <<"<<1324>>">>, <<"<<1325>>">> >>,
    << <<"<<1326>>">>, <<"<<1327>>">> >>, << <<"<<1329>>">>, <<"<<1377>>">> >>,
    << <<"<<1330>>">>, <<"<<1378>>">> >>, << <<"<<1331>>">>, <<"<<1379>>">> >>,
    << <<"<<1332>>">>, <<"<<1380>>">> >>, << <<"<<1333>>">>, <<"<<1381>>">> >>,
    << <<"<<1334>>">>, <<"<<1382>>">> >>, << <<"<<1335>>">>, <<"<<1383>>">> >>,
    << <<"<<1336>>">>, <<"<<1384>>">> >>, << <<"<<1337>>">>, <<"<<1385>>">> >>,
    << <<"<<1338>>">>, <<"<<1386>>">> >>, << <<"<<1339>>">>, <<"<<1387>>">> >>,
    << <<"<<1340>>">>, <<"<<1388>>">> >>, << <<"<<1341>>">>, <<"<<1389>>">> >>,
    << <<"<<1342>>">>, <<"<<1390>>">> >>, << <<"<<1343>>">>, <<"<<1391>>">> >>,
    << <<"<<1344>>">>, <<"<<1392>>">> >>, << <<"<<1345>>">>, <<"<<1393>>">> >>,
    << <<"<<1346>>">>, <<"<<1394>>">> >>, << <<"<<1347>>">>, <<"<<1395>>">> >>,
    << <<"<<1348>>">>, <<"<<1396>>">> >>, << <<"<<1349>>">>, <<"<<1397>>">> >>,
    << <<"<<1350>>">>, <<"<<1398>>">> >>, << <<"<<1351>>">>, <<"<<1399>>">> >>,
    << <<"<<1352>>">>, <<"<<1400>>">> >>, << <<"<<1353>>">>, <<"<<1401>>">> >>,
    << <<"<<1354>>">>, <<"<<1402>>">> >>, << <<"<<1355>>">>, <<"<<1403>>">> >>,
    << <<"<<1356>>">>, <<"<<1404>>">> >>, << <<"<<1357>>">>, <<"<<1405>>">> >>,
    << <<"<<1358>>">>, <<"<<1406>>">> >>, << <<"<<1359>>">>, <<"<<1407>>">> >>,
    << <<"<<1360>>">>, <<"<<1408>>">> >>, << <<"<<1361>>">>, <<"<<1409>>">> >>,
    << <<"<<1362>>">>, <<"<<1410>>">> >>, << <<"<<1363>>">>, <<"<<1411>>">> >>,
    << <<"<<1364>>">>, <<"<<1412>>">> >>, << <<"<<1365>>">>, <<"<<1413>>">> >>,
    << <<"<<1366>>">>, <<"<<1414>>">> >>, << <<"<<4256>>">>, <<"<<11520>>">> >>,
    << <<"<<4257>>">>, <<"<<11521>>">> >>, << <<"<<4258>>">>, <<"<<11522>>">> >>,
    << <<"<<4259>>">>, <<"<<11523>>">> >>, << <<"<<4260>>">>, <<"<<11524>>">> >>,
    << <<"<<4261>>">>, <<"<<11525>>">> >>, << <<"<<4262>>">>, <<"<<11526>>">> >>,
    << <<"<<4263>>">>, <<"<<11527>>">> >>, << <<"<<4264>>">>, <<"<<11528>>">> >>,
    << <<"<<4265>>">>, <<"<<11529>>">> >>, << <<"<<4266>>">>, <<"<<11530>>">> >>,
    << <<"<<4267>>">>, <<"<<11531>>">> >>, << <<"<<4268>>">>, <<"<<11532>>">> >>,
    << <<"<<4269>>">>, <<"<<11533>>">> >>, << <<"<<4270>>">>, <<"<<11534>>">> >>,
    << <<"<<4271>>">>, <<"<<11535>>">> >>, << <<"<<4272>>">>, <<"<<11536>>">> >>,
    << <<"<<4273>>">>, <<"<<11537>>">> >>, << <<"<<4274>>">>, <<"<<11538>>">> >>,
    << <<"<<4275>>">>, <<"<<11539>>">> >>, << <<"<<4276>>">>, <<"<<11540>>">> >>,
    << <<"<<4277>>">>, <<"<<11541>>">> >>, << <<"<<4278>>">>, <<"<<11542>>">> >>,
    << <<"<<4279>>">>, <<"<<11543>>">> >>, << <<"<<4280>>">>, <<"<<11544>>">> >>,
    << <<"<<4281>>">>, <<"<<11545>>">> >>, << <<"<<4282>>">>, <<"<<11546>>">> >>,
    << <<"<<4283>>">>, <<"<<11547>>">> >>, << <<"<<4284>>">>, <<"<<11548>>">> >>,
    << <<"<<4285>>">>, <<"<<11549>>">> >>, << <<"<<4286>>">>, <<"<<11550>>">> >>,
    << <<"<<4287>>">>, <<"<<11551>>">> >>, << <<"<<4288>>">>, <<"<<11552>>">> >>,
    << <<"<<4289>>">>, <<"<<11553>>">> >>, << <<"<<4290>>">>, <<"<<11554>>">> >>,
    << <<"<<4291>>">>, <<"<<11555>>">> >>, << <<"<<4292>>">>, <<"<<11556>>">> >>,
    << <<"<<4293>>">>, <<"<<11557>>">> >>, << <<"<<4295>>">>, <<"<<11559>>">> >>,
    << <<"<<4301>>">>, <<"<<11565>>">> >>, << <<"<<5024>>">>, <<"<<43888>>">> >>,
    << <<"<<5025>>">>, <<"<<43889>>">> >>, << <<"<<5026>>">>, <<"<<43890>>">> >>,
    << <<"<<5027>>">>, <<"<<43891>>">> >>, << <<"<<5028>>">>, <<"<<43892>>">> >>,
    << <<"<<5029>>">>, <<"<<43893>>">> >>, << <<"<<5030>>">>, <<"<<43894>>">> >>,
    << <<"<<5031>>">>, <<"<<43895>>">> >>, << <<"<<5032>>">>, <<"<<43896>>">> >>,
    << <<"<<5033>>">>, <<"<<43897>>">> >>, << <<"<<5034>>">>, <<"<<43898>>">> >>,
    << <<"<<5035>>">>, <<"<<43899>>">> >>, << <<"<<5036>>">>, <<"<<43900>>">> >>,
    << <<"<<5037>>">>, <<"<<43901>>">> >>, << <<"<<5038>>">>, <<"<<43902>>">> >>,
    << <<"<<5039>>">>, <<"<<43903>>">> >>, << <<"<<5040>>">>, <<"<<43904>>">> >>,
    << <<"<<5041>>">>, <<"<<43905>>">> >>, << <<"<<5042>>">>, <<"<<43906>>">> >>,
    << <<"<<5043>>">>, <<"<<43907>>">> >>, << <<"<<5044>>">>, <<"<<43908>>">> >>,
    << <<"<<5045>>">>, <<"<<43909>>">> >>, << <<"<<5046>>">>, <<"<<43910>>">> >>,
    << <<"<<5047>>">>, <<"<<43911>>">> >>, << <<"<<5048>>">>, <<"<<43912>>">> >>,
    << <<"<<5049>>">>, <<"<<43913>>">> >>, << <<"<<5050>>">>, <<"<<43914>>">> >>,
    << <<"<<5051>>">>, <<"<<43915>>">> >>, << <<"<<5052>>">>, <<"<<43916>>">> >>,
    << <<"<<5053>>">>, <<"<<43917>>">> >>, << <<"<<5054>>">>, <<"<<43918>>">> >>,
    << <<"<<5055>>">>, <<"<<43919>>">> >>, << <<"<<5056>>">>, <<"<<43920>>">> >>,
    << <<"<<5057>>">>, <<"<<43921>>">> >>, << <<"<<5058>>">>, <<"<<43922>>">> >>,
    << <<"<<5059>>">>, <<"<<43923>>">> >>, << <<"<<5060>>">>, <<"<<43924>>">> >>,
    << <<"<<5061>>">>, <<"<<43925>>">> >>, << <<"<<5062>>">>, <<"<<43926>>">> >>,
    << <<"<<5063>>">>, <<"<<43927>>">> >>, << <<"<<5064>>">>, <<"<<43928>>">> >>,
    << <<"<<5065>>">>, <<"<<43929>>">> >>, << <<"<<5066>>">>, <<"<<43930>>">> >>,
    << <<"<<5067>>">>, <<"<<43931>>">> >>, << <<"<<5068>>">>, <<"<<43932>>">> >>,
    << <<"<<5069>>">>, <<"<<43933>>">> >>, << <<"<<5070>>">>, <<"<<43934>>">> >>,
    << <<"<<5071>>">>, <<"<<43935>>">> >>, << <<"<<5072>>">>, <<"<<43936>>">> >>,
    << <<"<<5073>>">>, <<"<<43937>>">> >>, << <<"<<5074>>">>, <<"<<43938>>">> >>,
    << <<"<<5075>>">>, <<"<<43939>>">> >>, << <<"<<5076>>">>, <<"<<43940>>">> >>,
    << <<"<<5077>>">>, <<"<<43941>>">> >>, << <<"<<5078>>">>, <<"<<43942>>">> >>,
    << <<"<<5079>>">>, <<"<<43943>>">> >>, << <<"<<5080>>">>, <<"<<43944>>">> >>,
    << <<"<<5081>>">>, <<"<<43945>>">> >>, << <<"<<5082>>">>, <<"<<43946>>">> >>,
    << <<"<<5083>>">>, <<"<<43947>>">> >>, << <<"<<5084>>">>, <<"<<43948>>">> >>,
    << <<"<<5085>>">>, <<"<<43949>>">> >>, << <<"<<5086>>">>, <<"<<43950>>">> >>,
    << <<"<<5087>>">>, <<"<<43951>>">> >>, << <<"<<5088>>">>, <<"<<43952>>">> >>,
    << <<"<<5089>>">>, <<"<<43953>>">> >>, << <<"<<5090>>">>, <<"<<43954>>">> >>,
    << <<"<<5091>>">>, <<"<<43955>>">> >>, << <<"<<5092>>">>, <<"<<43956>>">> >>,
    << <<"<<5093>>">>, <<"<<43957>>">> >>, << <<"<<5094>>">>, <<"<<43958>>">> >>,
    << <<"<<5095>>">>, <<"<<43959>>">> >>, << <<"<<5096>>">>, <<"<<43960>>">> >>,
    << <<"<<5097>>">>, <<"<<43961>>">> >>, << <<"<<5098>>">>, <<"<<43962>>">> >>,
    << <<"<<5099>>">>, <<"<<43963>>">> >>, << <<"<<5100>>">>, <<"<<43964>>">> >>,
    << <<"<<5101>>">>, <<"<<43965>>">> >>, << <<"<<5102>>">>, <<"<<43966>>">> >>,
    << <<"<<5103>>">>, <<"<<43967>>">> >>, << <<"<<5104>>">>, <<"<<5112>>">> >>,
    << <<"<<5105>>">>, <<"<<5113>>">> >>, << <<"<<5106>>">>, <<"<<5114>>">> >>,
    << <<"<<5107>>">>, <<"<<5115>>">> >>, << <<"<<5108>>">>, <<"<<5116>>">> >>,
    << <<"<<5109>>">>, <<"<<5117>>">> >>, << <<"<<7305>>">>, <<"<<7306>>">> >>,
    << <<"<<7312>>">>, <<"<<4304>>">> >>, << <<"<<7313>>">>, <<"<<4305>>">> >>,
    << <<"<<7314>>">>, <<"<<4306>>">> >>, << <<"<<7315>>">>, <<"<<4307>>">> >>,
    << <<"<<7316>>">>, <<"<<4308>>">> >>, << <<"<<7317>>">>, <<"<<4309>>">> >>,
    << <<"<<7318>>">>, <<"<<4310>>">> >>, << <<"<<7319>>">>, <<"<<4311>>">> >>,
    << <<"<<7320>>">>, <<"<<4312>>">> >>, << <<"<<7321>>">>, <<"<<4313>>">> >>,
    << <<"<<7322>>">>, <<"<<4314>>">> >>, << <<"<<7323>>">>, <<"<<4315>>">> >>,
    << <<"<<7324>>">>, <<"<<4316>>">> >>, << <<"<<7325>>">>, <<"<<4317>>">> >>,
    << <<"<<7326>>">>, <<"<<4318>>">> >>, << <<"<<7327>>">>, <<"<<4319>>">> >>,
    << <<"<<7328>>">>, <<"<<4320>>">> >>, << <<"<<7329>>">>, <<"<<4321>>">> >>,
    << <<"<<7330>>">>, <<"<<4322>>">> >>, << <<"<<7331>>">>, <<"<<4323>>">> >>,
    << <<"<<7332>>">>, <<"<<4324>>">> >>, << <<"<<7333>>">>, <<"<<4325>>">> >>,
    << <<"<<7334>>">>, <<"<<4326>>">> >>, << <<"<<7335>>">>, <<"<<4327>>">> >>,
    << <<"<<7336>>">>, <<"<<4328>>">> >>, << <<"<<7337>>">>, <<"<<4329>>">> >>,
    << <<"<<7338>>">>, <<"<<4330>>">> >>, << <<"<<7339>>">>, <<"<<4331>>">> >>,
    << <<"<<7340>>">>, <<"<<4332>>">> >>, << <<"<<7341>>">>, <<"<<4333>>">> >>,
    << <<"<<7342>>">>, <<"<<4334>>">> >>, << <<"<<7343>>">>, <<"<<4335>>">> >>,
    << <<"<<7344>>">>, <<"<<4336>>">> >>, << <<"<<7345>>">>, <<"<<4337>>">> >>,
    << <<"<<7346>>">>, <<"<<4338>>">> >>, << <<"<<7347>>">>, <<"<<4339>>">> >>,
    << <<"<<7348>>">>, <<"<<4340>>">> >>, << <<"<<7349>>">>, <<"<<4341>>">> >>,
    << <<"<<7350>>">>, <<"<<4342>>">> >>, << <<"<<7351>>">>, <<"<<4343>>">> >>,
    << <<"<<7352>>">>, <<"<<4344>>">> >>, << <<"<<7353>>">>, <<"<<4345>>">> >>,
    << <<"<<7354>>">>, <<"<<4346>>">> >>, << <<"<<7357>>">>, <<"<<4349>>">> >>,
    << <<"<<7358>>">>, <<"<<4350>>">> >>, << <<"<<7359>>">>, <<"<<4351>>">> >>,
    << <<"<<7680>>">>, <<"<<7681>>">> >>, << <<"<<7682>>">>, <<"<<7683>>">> >>,
    << <<"<<7684>>">>, <<"<<7685>>">> >>, << <<"<<7686>>">>, <<"<<7687>>">> >>,
    << <<"<<7688>>">>, <<"<<7689>>">> >>, << <<"<<7690>>">>, <<"<<7691>>">> >>,
    << <<"<<7692>>">>, <<"<<7693>>">> >>, << <<"<<7694>>">>, <<"<<7695>>">> >>,
    << <<"<<7696>>">>, <<"<<7697>>">> >>, << <<"<<7698>>">>, <<"<<7699>>">> >>,
    << <<"<<7700>>">>, <<"<<7701>>">> >>, << <<"<<7702>>">>, <<"<<7703>>">> >>,
    << <<"<<7704>>">>, <<"<<7705>>">> >>, << <<"<<7706>>">>, <<"<<7707>>">> >>,
    << <<"<<7708>>">>, <<"<<7709>>">> >>, << <<"<<7710>>">>, <<"<<7711>>">> >>,
    << <<"<<7712>>">>, <<"<<7713>>">> >>, << <<"<<7714>>">>, <<"<<7715>>">> >>,
    << <<"<<7716>>">>, <<"<<7717>>">> >>, << <<"<<7718>>">>, <<"<<7719>>">> >>,
    << <<"<<7720>>">>, <<"<<7721>>">> >>, << <<"<<7722>>">>, <<"<<7723>>">> >>,
    << <<"<<7724>>">>, <<"<<7725>>">> >>, << <<"<<7726>>">>, <<"<<7727>>">> >>,
    << <<"<<7728>>">>, <<"<<7729>>">> >>, << <<"<<7730>>">>, <<"<<7731>>">> >>,
    << <<"<<7732>>">>, <<"<<7733>>">> >>, << <<"<<7734>>">>, <<"<<7735>>">> >>,
    << <<"<<7736>>">>, <<"<<7737>>">> >>, << <<"<<7738>>">>, <<"<<7739>>">> >>,
    << <<"<<7740>>">>, <<"<<7741>>">> >>, << <<"<<7742>>">>, <<"<<7743>>">> >>,
    << <<"<<7744>>">>, <<"<<7745>>">> >>, << <<"<<7746>>">>, <<"<<7747>>">> >>,
    << <<"<<7748>>">>, <<"<<7749>>">> >>, << <<"<<7750>>">>, <<"<<7751>>">> >>,
    << <<"<<7752>>">>, <<"<<7753>>">> >>, << <<"<<7754>>">>, <<"<<7755>>">> >>,
    << <<"<<7756>>">>, <<"<<7757>>">> >>, << <<"<<7758>>">>, <<"<<7759>>">> >>,
    << <<"<<7760>>">>, <<"<<7761>>">> >>, << <<"<<7762>>">>, <<"<<7763>>">> >>,
    << <<"<<7764>>">>, <<"<<7765>>">> >>, << <<"<<7766>>">>, <<"<<7767>>">> >>,
    << <<"<<7768>>">>, <<"<<7769>>">> >>, << <<"<<7770>>">>, <<"<<7771>>">> >>,
    << <<"<<7772>>">>, <<"<<7773>>">> >>, << <<"<<7774>>">>, <<"<<7775>>">> >>,
    << <<"<<7776>>">>, <<"<<7777>>">> >>, << <<"<<7778>>">>, <<"<<7779>>">> >>,
    << <<"<<7780>>">>, <<"<<7781>>">> >>, << <<"<<7782>>">>, <<"<<7783>>">> >>,
    << <<"<<7784>>">>, <<"<<7785>>">> >>, << <<"<<7786>>">>, <<"<<7787>>">> >>,
    << <<"<<7788>>">>, <<"<<7789>>">> >>, << <<"<<7790>>">>, <<"<<7791>>">> >>,
    << <<"<<7792>>">>, <<"<<7793>>">> >>, << <<"<<7794>>">>, <<"<<7795>>">> >>,
    << <<"<<7796>>">>, <<"<<7797>>">> >>, << <<"<<7798>>">>, <<"<<7799>>">> >>,
    << <<"<<7800>>">>, <<"<<7801>>">> >>, << <<"<<7802>>">>, <<"<<7803>>">> >>,
    << <<"<<7804>>">>, <<"<<7805>>">> >>, << <<"<<7806>>">>, <<"<<7807>>">> >>,
    << <<"<<7808>>">>, <<"<<7809>>">> >>, << <<"<<7810>>">>, <<"<<7811>>">> >>,
    << <<"<<7812>>">>, <<"<<7813>>">> >>, << <<"<<7814>>">>, <<"<<7815>>">> >>,
    << <<"<<7816>>">>, <<"<<7817>>">> >>, << <<"<<7818>>">>, <<"<<7819>>">> >>,
    << <<"<<7820>>">>, <<"<<7821>>">> >>, << <<"<<7822>>">>, <<"<<7823>>">> >>,
    << <<"<<7824>>">>, <<"<<7825>>">> >>, << <<"<<7826>>">>, <<"<<7827>>">> >>,
    << <<"<<7828>>">>, <<"<<7829>>">> >>, << <<"<<7838>>">>, <<"<<223>>">> >>,
    << <<"<<7840>>">>, <<"<<7841>>">> >>, << <<"<<7842>>">>, <<"<<7843>>">> >>,
    << <<"<<7844>>">>, <<"<<7845>>">> >>, << <<"<<7846>>">>, <<"<<7847>>">> >>,
    << <<"<<7848>>">>, <<"<<7849>>">> >>, << <<"<<7850>>">>, <<"<<7851>>">> >>,
    << <<"<<7852>>">>, <<"<<7853>>">> >>, << <<"<<7854>>">>, <<"<<7855>>">> >>,
    << <<"<<7856>>">>, <<"<<7857>>">> >>, << <<"<<7858>>">>, <<"<<7859>>">> >>,
    << <<"<<7860>>">>, <<"<<7861>>">> >>, << <<"<<7862>>">>, <<"<<7863>>">> >>,
    << <<"<<7864>>">>, <<"<<7865>>">> >>, << <<"<<7866>>">>, <<"<<7867>>">> >>,
    << <<"<<7868>>">>, <<"<<7869>>">> >>, << <<"<<7870>>">>, <<"<<7871>>">> >>,
    << <<"<<7872>>">>, <<"<<7873>>">> >>, << <<"<<7874>>">>, <<"<<7875>>">> >>,
    << <<"<<7876>>">>, <<"<<7877>>">> >>, << <<"<<7878>>">>, <<"<<7879>>">> >>,
    << <<"<<7880>>">>, <<"<<7881>>">> >>, << <<"<<7882>>">>, <<"<<7883>>">> >>,
    << <<"<<7884>>">>, <<"<<7885>>">> >>, << <<"<<7886>>">>, <<"<<7887>>">> >>,
    << <<"<<7888>>">>, <<"<<7889>>">> >>, << <<"<<7890>>">>, <<"<<7891>>">> >>,
    << <<"<<7892>>">>, <<"<<7893>>">> >>, << <<"<<7894>>">>, <<"<<7895>>">> >>,
    << <<"<<7896>>">>, <<"<<7897>>">> >>, << <<"<<7898>>">>, <<"<<7899>>">> >>,
    << <<"<<7900>>">>, <<"<<7901>>">> >>, << <<"<<7902>>">>, <<"<<7903>>">> >>,
    << <<"<<7904>>">>, <<"<<7905>>">> >>, << <<"<<7906>>">>, <<"<<7907>>">> >>,
    << <<"<<7908>>">>, <<"<<7909>>">> >>, << <<"<<7910>>">>, <<"<<7911>>">> >>,
    << <<"<<7912>>">>, <<"<<7913>>">> >>, << <<"<<7914>>">>, <<"<<7915>>">> >>,
    << <<"<<7916>>">>, <<"<<7917>>">> >>, << <<"<<7918>>">>, <<"<<7919>>">> >>,
    << <<"<<7920>>">>, <<"<<7921>>">> >>, << <<"<<7922>>">>, <<"<<7923>>">> >>,
    << <<"<<7924>>">>, <<"<<7925>>">> >>, << <<"<<7926>>">>, <<"<<7927>>">> >>,
    << <<"<<7928>>">>, <<"<<7929>>">> >>, << <<"<<7930>>">>, <<"<<7931>>">> >>,
    << <<"<<7932>>">>, <<"<<7933>>">> >>, << <<"<<7934>>">>, <<"<<7935>>">> >>,
    << <<"<<7944>>">>, <<"<<7936>>">> >>, << <<"<<7945>>">>, <<"<<7937>>">> >>,
    << <<"<<7946>>">>, <<"<<7938>>">> >>, << <<"<<7947>>">>, <<"<<7939>>">> >>,
    << <<"<<7948>>">>, <<"<<7940>>">> >>, << <<"<<7949>>">>, <<"<<7941>>">> >>,
    << <<"<<7950>>">>, <<"<<7942>>">> >>, << <<"<<7951>>">>, <<"<<7943>>">> >>,
    << <<"<<7960>>">>, <<"<<7952>>">> >>, << <<"<<7961>>">>, <<"<<7953>>">> >>,
    << <<"<<7962>>">>, <<"<<7954>>">> >>, << <<"<<7963>>">>, <<"<<7955>>">> >>,
    << <<"<<7964>>">>, <<"<<7956>>">> >>, << <<"<<7965>>">>, <<"<<7957>>">> >>,
    << <<"<<7976>>">>, <<"<<7968>>">> >>, << <<"<<7977>>">>, <<"<<7969>>">> >>,
    << <<"<<7978>>">>, <<"<<7970>>">> >>, << <<"<<7979>>">>, <<"<<7971>>">> >>,
    << <<"<<7980>>">>, <<"<<7972>>">> >>, << <<"<<7981>>">>, <<"<<7973>>">> >>,
    << <<"<<7982>>">>, <<"<<7974>>">> >>, << <<"<<7983>>">>, <<"<<7975>>">> >>,
    << <<"<<7992>>">>, <<"<<7984>>">> >>, << <<"<<7993>>">>, <<"<<7985>>">> >>,
    << <<"<<7994>>">>, <<"<<7986>>">> >>, << <<"<<7995>>">>, <<"<<7987>>">> >>,
    << <<"<<7996>>">>, <<"<<7988>>">> >>, << <<"<<7997>>">>, <<"<<7989>>">> >>,
    << <<"<<7998>>">>, <<"<<7990>>">> >>, << <<"<<7999>>">>, <<"<<7991>>">> >>,
    << <<"<<8008>>">>, <<"<<8000>>">> >>, << <<"<<8009>>">>, <<"<<8001>>">> >>,
    << <<"<<8010>>">>, <<"<<8002>>">> >>, << <<"<<8011>>">>, <<"<<8003>>">> >>,
    << <<"<<8012>>">>, <<"<<8004>>">> >>, << <<"<<8013>>">>, <<"<<8005>>">> >>,
    << <<"<<8025>>">>, <<"<<8017>>">> >>, << <<"<<8027>>">>, <<"<<8019>>">> >>,
    << <<"<<8029>>">>, <<"<<8021>>">> >>, << <<"<<8031>>">>, <<"<<8023>>">> >>,
    << <<"<<8040>>">>, <<"<<8032>>">> >>, << <<"<<8041>>">>, <<"<<8033>>">> >>,
    << <<"<<8042>>">>, <<"<<8034>>">> >>, << <<"<<8043>>">>, <<"<<8035>>">> >>,
    << <<"<<8044>>">>, <<"<<8036>>">> >>, << <<"<<8045>>">>, <<"<<8037>>">> >>,
    << <<"<<8046>>">>, <<"<<8038>>">> >>, << <<"<<8047>>">>, <<"<<8039>>">> >>,
    << <<"<<8072>>">>, <<"<<8064>>">> >>, << <<"<<8073>>">>, <<"<<8065>>">> >>,
    << <<"<<8074>>">>, <<"<<8066>>">> >>, << <<"<<8075>>">>, <<"<<8067>>">> >>,
    << <<"<<8076>>">>, <<"<<8068>>">> >>, << <<"<<8077>>">>, <<"<<8069>>">> >>,
    << <<"<<8078>>">>, <<"<<8070>>">> >>, << <<"<<8079>>">>, <<"<<8071>>">> >>,
    << <<"<<8088>>">>, <<"<<8080>>">> >>, << <<"<<8089>>">>, <<"<<8081>>">> >>,
    << <<"<<8090>>">>, <<"<<8082>>">> >>, << <<"<<8091>>">>, <<"<<8083>>">> >>,
    << <<"<<8092>>">>, <<"<<8084>>">> >>, << <<"<<8093>>">>, <<"<<8085>>">> >>,
    << <<"<<8094>>">>, <<"<<8086>>">> >>, << <<"<<8095>>">>, <<"<<8087>>">> >>,
    << <<"<<8104>>">>, <<"<<8096>>">> >>, << <<"<<8105>>">>, <<"<<8097>>">> >>,
    << <<"<<8106>>">>, <<"<<8098>>">> >>, << <<"<<8107>>">>, <<"<<8099>>">> >>,
    << <<"<<8108>>">>, <<"<<8100>>">> >>, << <<"<<8109>>">>, <<"<<8101>>">> >>,
    << <<"<<8110>>">>, <<"<<8102>>">> >>, << <<"<<8111>>">>, <<"<<8103>>">> >>,
    << <<"<<8120>>">>, <<"<<8112>>">> >>, << <<"<<8121>>">>, <<"<<8113>>">> >>,
    << <<"<<8122>>">>, <<"<<8048>>">> >>, << <<"<<8123>>">>, <<"<<8049>>">> >>,
    << <<"<<8124>>">>, <<"<<8115>>">> >>, << <<"<<8136>>">>, <<"<<8050>>">> >>,
    << <<"<<8137>>">>, <<"<<8051>>">> >>, << <<"<<8138>>">>, <<"<<8052>>">> >>,
    << <<"<<8139>>">>, <<"<<8053>>">> >>, << <<"<<8140>>">>, <<"<<8131>>">> >>,
    << <<"<<8152>>">>, <<"<<8144>>">> >>, << <<"<<8153>>">>, <<"<<8145>>">> >>,
    << <<"<<8154>>">>, <<"<<8054>>">> >>, << <<"<<8155>>">>, <<"<<8055>>">> >>,
    << <<"<<8168>>">>, <<"<<8160>>">> >>, << <<"<<8169>>">>, <<"<<8161>>">> >>,
    << <<"<<8170>>">>, <<"<<8058>>">> >>, << <<"<<8171>>">>, <<"<<8059>>">> >>,
    << <<"<<8172>>">>, <<"<<8165>>">> >>, << <<"<<8184>>">>, <<"<<8056>>">> >>,
    << <<"<<8185>>">>, <<"<<8057>>">> >>, << <<"<<8186>>">>, <<"<<8060>>">> >>,
    << <<"<<8187>>">>, <<"<<8061>>">> >>, << <<"<<8188>>">>, <<"<<8179>>">> >>,
    << <<"<<8486>>">>, <<"<<969>>">> >>, << <<"<<8490>>">>, <<"k">> >>,
    << <<"<<8491>>">>, <<"<<229>>">> >>, << <<"<<8498>>">>, <<"<<8526>>">> >>,
    << <<"<<8544>>">>, <<"<<8560>>">> >>, << <<"<<8545>>">>, <<"<<8561>>">> >>,
    << <<"<<8546>>">>, <<"<<8562>>">> >>, << <<"<<8547>>">>, <<"<<8563>>">> >>,
    << <<"<<8548>>">>, <<"<<8564>>">> >>, << <<"<<8549>>">>, <<"<<8565>>">> >>,
    << <<"<<8550>>">>, <<"<<8566>>">> >>, << <<"<<8551>>">>, <<"<<8567>>">> >>,
    << <<"<<8552>>">>, <<"<<8568>>">> >>, << <<"<<8553>>">>, <<"<<8569>>">> >>,
    << <<"<<8554>>">>, <<"<<8570>>">> >>, << <<"<<8555>>">>, <<"<<8571>>">> >>,
    << <<"<<8556>>">>, <<"<<8572>>">> >>, << <<"<<8557>>">>, <<"<<8573>>">> >>,
    << <<"<<8558>>">>, <<"<<8574>>">> >>, << <<"<<8559>>">>, <<"<<8575>>">> >>,
    << <<"<<8579>>">>, <<"<<8580>>">> >>, << <<"<<9398>>">>, <<"<<9424>>">> >>,
    << <<"<<9399>>">>, <<"<<9425>>">> >>, << <<"<<9400>>">>, <<"<<9426>>">> >>,
    << <<"<<9401>>">>, <<"<<9427>>">> >>, << <<"<<9402>>">>, <<"<<9428>>">> >>,
    << <<"<<9403>>">>, <<"<<9429>>">> >>, << <<"<<9404>>">>, <<"<<9430>>">> >>,
    << <<"<<9405>>">>, <<"<<9431>>">> >>, << <<"<<9406>>">>, <<"<<9432>>">> >>,
    << <<"<<9407>>">>, <<"<<9433>>">> >>, << <<"<<9408>>">>, <<"<<9434>>">> >>,
    << <<"<<9409>>">>, <<"<<9435>>">> >>, << <<"<<9410>>">>, <<"<<9436>>">> >>,
    << <<"<<9411>>">>, <<"<<9437>>">> >>, << <<"<<9412>>">>, <<"<<9438>>">> >>,
    << <<"<<9413>>">>, <<"<<9439>>">> >>, << <<"<<9414>>">>, <<"<<9440>>">> >>,
    << <<"<<9415>>">>, <<"<<9441>>">> >>, << <<"<<9416>>">>, <<"<<9442>>">> >>,
    << <<"<<9417>>">>, <<"<<9443>>">> >>, << <<"<<9418>>">>, <<"<<9444>>">> >>,
    << <<"<<9419>>">>, <<"<<9445>>">> >>, << <<"<<9420>>">>, <<"<<9446>>">> >>,
    << <<"<<9421>>">>, <<"<<9447>>">> >>, << <<"<<9422>>">>, <<"<<9448>>">> >>,
    << <<"<<9423>>">>, <<"<<9449>>">> >>, << <<"<<11264>>">>, <<"<<11312>>">> >>,
    << <<"<<11265>>">>, <<"<<11313>>">> >>, << <<"<<11266>>">>, <<"<<11314>>">> >>,
    << <<"<<11267>>">>, <<"<<11315>>">> >>, << <<"<<11268>>">>, <<"<<11316>>">> >>,
    << <<"<<11269>>">>, <<"<<11317>>">> >>, << <<"<<11270>>">>, <<"<<11318>>">> >>,
    << <<"<<11271>>">>, <<"<<11319>>">> >>, << <<"<<11272>>">>, <<"<<11320>>">> >>,
    << <<"<<11273>>">>, <<"<<11321>>">> >>, << <<"<<11274>>">>, <<"<<11322>>">> >>,
    << <<"<<11275>>">>, <<"<<11323>>">> >>, << <<"<<11276>>">>, <<"<<11324>>">> >>,
    << <<"<<11277>>">>, <<"<<11325>>">> >>, << <<"<<11278>>">>, <<"<<11326>>">> >>,
    << <<"<<11279>>">>, <<"<<11327>>">> >>, << <<"<<11280>>">>, <<"<<11328>>">> >>,
    << <<"<<11281>>">>, <<"<<11329>>">> >>, << <<"<<11282>>">>, <<"<<11330>>">> >>,
    << <<"<<11283>>">>, <<"<<11331>>">> >>, << <<"<<11284>>">>, <<"<<11332>>">> >>,
    << <<"<<11285>>">>, <<"<<11333>>">> >>, << <<"<<11286>>">>, <<"<<11334>>">> >>,
    << <<"<<11287>>">>, <<"<<11335>>">> >>, << <<"<<11288>>">>, <<"<<11336>>">> >>,
    << <<"<<11289>>">>, <<"<<11337>>">> >>, << <<"<<11290>>">>, <<"<<11338>>">> >>,
    << <<"<<11291>>">>, <<"<<11339>>">> >>, << <<"<<11292>>">>, <<"<<11340>>">> >>,
    << <<"<<11293>>">>, <<"<<11341>>">> >>, << <<"<<11294>>">>, <<"<<11342>>">> >>,
    << <<"<<11295>>">>, <<"<<11343>>">> >>, << <<"<<11296>>">>, <<"<<11344>>">> >>,
    << <<"<<11297>>">>, <<"<<11345>>">> >>, << <<"<<11298>>">>, <<"<<11346>>">> >>,
    << <<"<<11299>>">>, <<"<<11347>>">> >>, << <<"<<11300>>">>, <<"<<11348>>">> >>,
    << <<"<<11301>>">>, <<"<<11349>>">> >>, << <<"<<11302>>">>, <<"<<11350>>">> >>,
    << <<"<<11303>>">>, <<"<<11351>>">> >>, << <<"<<11304>>">>, <<"<<11352>>">> >>,
    << <<"<<11305>>">>, <<"<<11353>>">> >>, << <<"<<11306>>">>, <<"<<11354>>">> >>,
    << <<"<<11307>>">>, <<"<<11355>>">> >>, << <<"<<11308>>">>, <<"<<11356>>">> >>,
    << <<"<<11309>>">>, <<"<<11357>>">> >>, << <<"<<11310>>">>, <<"<<11358>>">> >>,
    << <<"<<11311>>">>, <<"<<11359>>">> >>, << <<"<<11360>>">>, <<"<<11361>>">> >>,
    << <<"<<11362>>">>, <<"<<619>>">> >>, << <<"<<11363>>">>, <<"<<7549>>">> >>,
    << <<"<<11364>>">>, <<"<<637>>">> >>, << <<"<<11367>>">>, <<"<<11368>>">> >>,
    << <<"<<11369>>">>, <<"<<11370>>">> >>, << <<"<<11371>>">>, <<"<<11372>>">> >>,
    << <<"<<11373>>">>, <<"<<593>>">> >>, << <<"<<11374>>">>, <<"<<625>>">> >>,
    << <<"<<11375>>">>, <<"<<592>>">> >>, << <<"<<11376>>">>, <<"<<594>>">> >>,
    << <<"<<11378>>">>, <<"<<11379>>">> >>, << <<"<<11381>>">>, <<"<<11382>>">> >>,
    << <<"<<11390>>">>, <<"<<575>>">> >>, << <<"<<11391>>">>, <<"<<576>>">> >>,
    << <<"<<11392>>">>, <<"<<11393>>">> >>, << <<"<<11394>>">>, <<"<<11395>>">> >>,
    << <<"<<11396>>">>, <<"<<11397>>">> >>, << <<"<<11398>>">>, <<"<<11399>>">> >>,
    << <<"<<11400>>">>, <<"<<11401>>">> >>, << <<"<<11402>>">>, <<"<<11403>>">> >>,
    << <<"<<11404>>">>, <<"<<11405>>">> >>, << <<"<<11406>>">>, <<"<<11407>>">> >>,
    << <<"<<11408>>">>, <<"<<11409>>">> >>, << <<"<<11410>>">>, <<"<<11411>>">> >>,
    << <<"<<11412>>">>, <<"<<11413>>">> >>, << <<"<<11414>>">>, <<"<<11415>>">> >>,
    << <<"<<11416>>">>, <<"<<11417>>">> >>, << <<"<<11418>>">>, <<"<<11419>>">> >>,
    << <<"<<11420>>">>, <<"<<11421>>">> >>, << <<"<<11422>>">>, <<"<<11423>>">> >>,
    << <<"<<11424>>">>, <<"<<11425>>">> >>, << <<"<<11426>>">>, <<"<<11427>>">> >>,
    << <<"<<11428>>">>, <<"<<11429>>">> >>, << <<"<<11430>>">>, <<"<<11431>>">> >>,
    << <<"<<11432>>">>, <<"<<11433>>">> >>, << <<"<<11434>>">>, <<"<<11435>>">> >>,
    << <<"<<11436>>">>, <<"<<11437>>">> >>, << <<"<<11438>>">>, <<"<<11439>>">> >>,
    << <<"<<11440>>">>, <<"<<11441>>">> >>, << <<"<<11442>>">>, <<"<<11443>>">> >>,
    << <<"<<11444>>">>, <<"<<11445>>">> >>, << <<"<<11446>>">>, <<"<<11447>>">> >>,
    << <<"<<11448>>">>, <<"<<11449>>">> >>, << <<"<<11450>>">>, <<"<<11451>>">> >>,
    << <<"<<11452>>">>, <<"<<11453>>">> >>, << <<"<<11454>>">>, <<"<<11455>>">> >>,
    << <<"<<11456>>">>, <<"<<11457>>">> >>, << <<"<<11458>>">>, <<"<<11459>>">> >>,
    << <<"<<11460>>">>, <<"<<11461>>">> >>, << <<"<<11462>>">>, <<"<<11463>>">> >>,
    << <<"<<11464>>">>, <<"<<11465>>">> >>, << <<"<<11466>>">>, <<"<<11467>>">> >>,
    << <<"<<11468>>">>, <<"<<11469>>">> >>, << <<"<<11470>>">>, <<"<<11471>>">> >>,
    << <<"<<11472>>">>, <<"<<11473>>">> >>, << <<"<<11474>>">>, <<"<<11475>>">> >>,
    << <<"<<11476>>">>, <<"<<11477>>">> >>, << <<"<<11478>>">>, <<"<<11479>>">> >>,
    << <<"<<11480>>">>, <<"<<11481>>">> >>, << <<"<<11482>>">>, <<"<<11483>>">> >>,
    << <<"<<11484>>">>, <<"<<11485>>">> >>, << <<"<<11486>>">>, <<"<<11487>>">> >>,
    << <<"<<11488>>">>, <<"<<11489>>">> >>, << <<"<<11490>>">>, <<"<<11491>>">> >>,
    << <<"<<11499>>">>, <<"<<11500>>">> >>, << <<"<<11501>>">>, <<"<<11502>>">> >>,
    << <<"<<11506>>">>, <<"<<11507>>">> >>, << <<"<<42560>>">>, <<"<<42561>>">> >>,
    << <<"<<42562>>">>, <<"<<42563>>">> >>, << <<"<<42564>>">>, <<"<<42565>>">> >>,
    << <<"<<42566>>">>, <<"<<42567>>">> >>, << <<"<<42568>>">>, <<"<<42569>>">> >>,
    << <<"<<42570>>">>, <<"<<42571>>">> >>, << <<"<<42572>>">>, <<"<<42573>>">> >>,
    << <<"<<42574>>">>, <<"<<42575>>">> >>, << <<"<<42576>>">>, <<"<<42577>>">> >>,
    << <<"<<42578>>">>, <<"<<42579>>">> >>, << <<"<<42580>>">>, <<"<<42581>>">> >>,
    << <<"<<42582>>">>, <<"<<42583>>">> >>, << <<"<<42584>>">>, <<"<<42585>>">> >>,
    << <<"<<42586>>">>, <<"<<42587>>">> >>, << <<"<<42588>>">>, <<"<<42589>>">> >>,
    << <<"<<42590>>">>, <<"<<42591>>">> >>, << <<"<<42592>>">>, <<"<<42593>>">> >>,
    << <<"<<42594>>">>, <<"<<42595>>">> >>, << <<"<<42596>>">>, <<"<<42597>>">> >>,
    << <<"<<42598>>">>, <<"<<42599>>">> >>, << <<"<<42600>>">>, <<"<<42601>>">> >>,
    << <<"<<42602>>">>, <<"<<42603>>">> >>, << <<"<<42604>>">>, <<"<<42605>>">> >>,
    << <<"<<42624>>">>, <<"<<42625>>">> >>, << <<"<<42626>>">>, <<"<<42627>>">> >>,
    << <<"<<42628>>">>, <<"<<42629>>">> >>, << <<"<<42630>>">>, <<"<<42631>>">> >>,
    << <<"<<42632>>">>, <<"<<42633>>">> >>, << <<"<<42634>>">>, <<"<<42635>>">> >>,
    << <<"<<42636>>">>, <<"<<42637>>">> >>, << <<"<<42638>>">>, <<"<<42639>>">> >>,
    << <<"<<42640>>">>, <<"<<42641>>">> >>, << <<"<<42642>>">>, <<"<<42643>>">> >>,
    << <<"<<42644>>">>, <<"<<42645>>">> >>, << <<"<<42646>>">>, <<"<<42647>>">> >>,
    << <<"<<42648>>">>, <<"<<42649>>">> >>, << <<"<<42650>>">>, <<"<<42651>>">> >>,
    << <<"<<42786>>">>, <<"<<42787>>">> >>, << <<"<<42788>>">>, <<"<<42789>>">> >>,
    << <<"<<42790>>">>, <<"<<42791>>">> >>, << <<"<<42792>>">>, <<"<<42793>>">> >>,
    << <<"<<42794>>">>, <<"<<42795>>">> >>, << <<"<<42796>>">>, <<"<<42797>>">> >>,
    << <<"<<42798>>">>, <<"<<42799>>">> >>, << <<"<<42802>>">>, <<"<<42803>>">> >>,
    << <<"<<42804>>">>, <<"<<42805>>">> >>, << <<"<<42806>>">>, <<"<<42807>>">> >>,
    << <<"<<42808>>">>, <<"<<42809>>">> >>, << <<"<<42810>>">>, <<"<<42811>>">> >>,
    << <<"<<42812>>">>, <<"<<42813>>">> >>, << <<"<<42814>>">>, <<"<<42815>>">> >>,
    << <<"<<42816>>">>, <<"<<42817>>">> >>, << <<"<<42818>>">>, <<"<<42819>>">> >>,
    << <<"<<42820>>">>, <<"<<42821>>">> >>, << <<"<<42822>>">>, <<"<<42823>>">> >>,
    << <<"<<42824>>">>, <<"<<42825>>">> >>, << <<"<<42826>>">>, <<"<<42827>>">> >>,
    << <<"<<42828>>">>, <<"<<42829>>">> >>, << <<"<<42830>>">>, <<"<<42831>>">> >>,
    << <<"<<42832>>">>, <<"<<42833>>">> >>, << <<"<<42834>>">>, <<"<<42835>>">> >>,
    << <<"<<42836>>">>, <<"<<42837>>">> >>, << <<"<<42838>>">>, <<"<<42839>>">> >>,
    << <<"<<42840>>">>, <<"<<42841>>">> >>, << <<"<<42842>>">>, <<"<<42843>>">> >>,
    << <<"<<42844>>">>, <<"<<42845>>">> >>, << <<"<<42846>>">>, <<"<<42847>>">> >>,
    << <<"<<42848>>">>, <<"<<42849>>">> >>, << <<"<<42850>>">>, <<"<<42851>>">> >>,
    << <<"<<42852>>">>, <<"<<42853>>">> >>, << <<"<<42854>>">>, <<"<<42855>>">> >>,
    << <<"<<42856>>">>, <<"<<42857>>">> >>, << <<"<<42858>>">>, <<"<<42859>>">> >>,
    << <<"<<42860>>">>, <<"<<42861>>">> >>, << <<"<<42862>>">>, <<"<<42863>>">> >>,
    << <<"<<42873>>">>, <<"<<42874>>">> >>, << <<"<<42875>>">>, <<"<<42876>>">> >>,
    << <<"<<42877>>">>, <<"<<7545>>">> >>, << <<"<<42878>>">>, <<"<<42879>>">> >>,
    << <<"<<42880>>">>, <<"<<42881>>">> >>, << <<"<<42882>>">>, <<"<<42883>>">> >>,
    << <<"<<42884>>">>, <<"<<42885>>">> >>, << <<"<<42886>>">>, <<"<<42887>>">> >>,
    << <<"<<42891>>">>, <<"<<42892>>">> >>, << <<"<<42893>>">>, <<"<<613>>">> >>,
    << <<"<<42896>>">>, <<"<<42897>>">> >>, << <<"<<42898>>">>, <<"<<42899>>">> >>,
    << <<"<<42902>>">>, <<"<<42903>>">> >>, << <<"<<42904>>">>, <<"<<42905>>">> >>,
    << <<"<<42906>>">>, <<"<<42907>>">> >>, << <<"<<42908>>">>, <<"<<42909>>">> >>,
    << <<"<<42910>>">>, <<"<<42911>>">> >>, << <<"<<42912>>">>, <<"<<42913>>">> >>,
    << <<"<<42914>>">>, <<"<<42915>>">> >>, << <<"<<42916>>">>, <<"<<42917>>">> >>,
    << <<"<<42918>>">>, <<"<<42919>>">> >>, << <<"<<42920>>">>, <<"<<42921>>">> >>,
    << <<"<<42922>>">>, <<"<<614>>">> >>, << <<"<<42923>>">>, <<"<<604>>">> >>,
    << <<"<<42924>>">>, <<"<<609>>">> >>, << <<"<<42925>>">>, <<"<<620>>">> >>,
    << <<"<<42926>>">>, <<"<<618>>">> >>, << <<"<<42928>>">>, <<"<<670>>">> >>,
    << <<"<<42929>>">>, <<"<<647>>">> >>, << <<"<<42930>>">>, <<"<<669>>">> >>,
    << <<"<<42931>>">>, <<"<<43859>>">> >>, << <<"<<42932>>">>, <<"<<42933>>">> >>,
    << <<"<<42934>>">>, <<"<<42935>>">> >>, << <<"<<42936>>">>, <<"<<42937>>">> >>,
    << <<"<<42938>>">>, <<"<<42939>>">> >>, << <<"<<42940>>">>, <<"<<42941>>">> >>,
    << <<"<<42942>>">>, <<"<<42943>>">> >>, << <<"<<42944>>">>, <<"<<42945>>">> >>,
    << <<"<<42946>>">>, <<"<<42947>>">> >>, << <<"<<42948>>">>, <<"<<42900>>">> >>,
    << <<"<<42949>>">>, <<"<<642>>">> >>, << <<"<<42950>>">>, <<"<<7566>>">> >>,
    << <<"<<42951>>">>, <<"<<42952>>">> >>, << <<"<<42953>>">>, <<"<<42954>>">> >>,
    << <<"<<42955>>">>, <<"<<612>>">> >>, << <<"<<42956>>">>, <<"<<42957>>">> >>,
    << <<"<<42958>>">>, <<"<<42959>>">> >>, << <<"<<42960>>">>, <<"<<42961>>">> >>,
    << <<"<<42962>>">>, <<"<<42963>>">> >>, << <<"<<42964>>">>, <<"<<42965>>">> >>,
    << <<"<<42966>>">>, <<"<<42967>>">> >>, << <<"<<42968>>">>, <<"<<42969>>">> >>,
    << <<"<<42970>>">>, <<"<<42971>>">> >>, << <<"<<42972>>">>, <<"<<411>>">> >>,
    << <<"<<42997>>">>, <<"<<42998>>">> >>, << <<"<<65313>>">>, <<"<<65345>>">> >>,
    << <<"<<65314>>">>, <<"<<65346>>">> >>, << <<"<<65315>>">>, <<"<<65347>>">> >>,
    << <<"<<65316>>">>, <<"<<65348>>">> >>, << <<"<<65317>>">>, <<"<<65349>>">> >>,
    << <<"<<65318>>">>, <<"<<65350>>">> >>, << <<"<<65319>>">>, <<"<<65351>>">> >>,
    << <<"<<65320>>">>, <<"<<65352>>">> >>, << <<"<<65321>>">>, <<"<<65353>>">> >>,
    << <<"<<65322>>">>, <<"<<65354>>">> >>, << <<"<<65323>>">>, <<"<<65355>>">> >>,
    << <<"<<65324>>">>, <<"<<65356>>">> >>, << <<"<<65325>>">>, <<"<<65357>>">> >>,
    << <<"<<65326>>">>, <<"<<65358>>">> >>, << <<"<<65327>>">>, <<"<<65359>>">> >>,
    << <<"<<65328>>">>, <<"<<65360>>">> >>, << <<"<<65329>>">>, <<"<<65361>>">> >>,
    << <<"<<65330>>">>, <<"<<65362>>">> >>, << <<"<<65331>>">>, <<"<<65363>>">> >>,
    << <<"<<65332>>">>, <<"<<65364>>">> >>, << <<"<<65333>>">>, <<"<<65365>>">> >>,
    << <<"<<65334>>">>, <<"<<65366>>">> >>, << <<"<<65335>>">>, <<"<<65367>>">> >>,
    << <<"<<65336>>">>, <<"<<65368>>">> >>, << <<"<<65337>>">>, <<"<<65369>>">> >>,
    << <<"<<65338>>">>, <<"<<65370>>">> >>,
    << <<"<<55297>>", "<<56320>>">>, <<"<<55297>>", "<<56360>>">> >>,
    << <<"<<55297>>", "<<56321>>">>, <<"<<55297>>", "<<56361>>">> >>,
    << <<"<<55297>>", "<<56322>>">>, <<"<<55297>>", "<<56362>>">> >>,
    << <<"<<55297>>", "<<56323>>">>, <<"<<55297>>", "<<56363>>">> >>,
    << <<"<<55297>>", "<<56324>>">>, <<"<<55297>>", "<<56364>>">> >>,
    << <<"<<55297>>", "<<56325>>">>, <<"<<55297>>", "<<56365>>">> >>,
    << <<"<<55297>>", "<<56326>>">>, <<"<<55297>>", "<<56366>>">> >>,
    << <<"<<55297>>", "<<56327>>">>, <<"<<55297>>", "<<56367>>">> >>,
    << <<"<<55297>>", "<<56328>>">>, <<"<<55297>>", "<<56368>>">> >>,
    << <<"<<55297>>", "<<56329>>">>, <<"<<55297>>", "<<56369>>">> >>,
    << <<"<<55297>>", "<<56330>>">>, <<"<<55297>>", "<<56370>>">> >>,
    << <<"<<55297>>", "<<56331>>">>, <<"<<55297>>", "<<56371>>">> >>,
    << <<"<<55297>>", "<<56332>>">>, <<"<<55297>>", "<<56372>>">> >>,
    << <<"<<55297>>", "<<56333>>">>, <<"<<55297>>", "<<56373>>">> >>,
    << <<"<<55297>>", "<<56334>>">>, <<"<<55297>>", "<<56374>>">> >>,
    << <<"<<55297>>", "<<56335>>">>, <<"<<55297>>", "<<56375>>">> >>,
    << <<"<<55297>>", "<<56336>>">>, <<"<<55297>>", "<<56376>>">> >>,
    << <<"<<55297>>", "<<56337>>">>, <<"<<55297>>", "<<56377>>">> >>,
    << <<"<<55297>>", "<<56338>>">>, <<"<<55297>>", "<<56378>>">> >>,
    << <<"<<55297>>", "<<56339>>">>, <<"<<55297>>", "<<56379>>">> >>,
    << <<"<<55297>>", "<<56340>>">>, <<"<<55297>>", "<<56380>>">> >>,
    << <<"<<55297>>", "<<56341>>">>, <<"<<55297>>", "<<56381>>">> >>,
    << <<"<<55297>>", "<<56342>>">>, <<"<<55297>>", "<<56382>>">> >>,
    << <<"<<55297>>", "<<56343>>">>, <<"<<55297>>", "<<56383>>">> >>,
    << <<"<<55297>>", "<<56344>>">>, <<"<<55297>>", "<<56384>>">> >>,
    << <<"<<55297>>", "<<56345>>">>, <<"<<55297>>", "<<56385>>">> >>,
    << <<"<<55297>>", "<<56346>>">>, <<"<<55297>>", "<<56386>>">> >>,
    << <<"<<55297>>", "<<56347>>">>, <<"<<55297>>", "<<56387>>">> >>,
    << <<"<<55297>>", "<<56348>>">>, <<"<<55297>>", "<<56388>>">> >>,
    << <<"<<55297>>", "<<56349>>">>, <<"<<55297>>", "<<56389>>">> >>,
    << <<"<<55297>>", "<<56350>>">>, <<"<<55297>>", "<<56390>>">> >>,
    << <<"<<55297>>", "<<56351>>">>, <<"<<55297>>", "<<56391>>">> >>,
    << <<"<<55297>>", "<<56352>>">>, <<"<<55297>>", "<<56392>>">> >>,
    << <<"<<55297>>", "<<56353>>">>, <<"<<55297>>", "<<56393>>">> >>,
    << <<"<<55297>>", "<<56354>>">>, <<"<<55297>>", "<<56394>>">> >>,
    << <<"<<55297>>", "<<56355>>">>, <<"<<55297>>", "<<56395>>">> >>,
    << <<"<<55297>>", "<<56356>>">>, <<"<<55297>>", "<<56396>>">> >>,
    << <<"<<55297>>", "<<56357>>">>, <<"<<55297>>", "<<56397>>">> >>,
    << <<"<<55297>>", "<<56358>>">>, <<"<<55297>>", "<<56398>>">> >>,
    << <<"<<55297>>", "<<56359>>">>, <<"<<55297>>", "<<56399>>">> >>,
    << <<"<<55297>>", "<<56496>>">>, <<"<<55297>>", "<<56536>>">> >>,
    << <<"<<55297>>", "<<56497>>">>, <<"<<55297>>", "<<56537>>">> >>,
    << <<"<<55297>>", "<<56498>>">>, <<"<<55297>>", "<<56538>>">> >>,
    << <<"<<55297>>", "<<56499>>">>, <<"<<55297>>", "<<56539>>">> >>,
    << <<"<<55297>>", "<<56500>>">>, <<"<<55297>>", "<<56540>>">> >>,
    << <<"<<55297>>", "<<56501>>">>, <<"<<55297>>", "<<56541>>">> >>,
    << <<"<<55297>>", "<<56502>>">>, <<"<<55297>>", "<<56542>>">> >>,
    << <<"<<55297>>", "<<56503>>">>, <<"<<55297>>", "<<56543>>">> >>,
    << <<"<<55297>>", "<<56504>>">>, <<"<<55297>>", "<<56544>>">> >>,
    << <<"<<55297>>", "<<56505>>">>, <<"<<55297>>", "<<56545>>">> >>,
    << <<"<<55297>>", "<<56506>>">>, <<"<<55297>>", "<<56546>>">> >>,
    << <<"<<55297>>", "<<56507>>">>, <<"<<55297>>", "<<56547>>">> >>,
    << <<"<<55297>>", "<<56508>>">>, <<"<<55297>>", "<<56548>>">> >>,
    << <<"<<55297>>", "<<56509>>">>, <<"<<55297>>", "<<56549>>">> >>,
    << <<"<<55297>>", "<<56510>>">>, <<"<<55297>>", "<<56550>>">> >>,
    << <<"<<55297>>", "<<56511>>">>, <<"<<55297>>", "<<56551>>">> >>,
    << <<"<<55297>>", "<<56512>>">>, <<"<<55297>>", "<<56552>>">> >>,
    << <<"<<55297>>", "<<56513>>">>, <<"<<55297>>", "<<56553>>">> >>,
    << <<"<<55297>>", "<<56514>>">>, <<"<<55297>>", "<<56554>>">> >>,
    << <<"<<55297>>", "<<56515>>">>, <<"<<55297>>", "<<56555>>">> >>,
    << <<"<<55297>>", "<<56516>>">>, <<"<<55297>>", "<<56556>>">> >>,
    << <<"<<55297>>", "<<56517>>">>, <<"<<55297>>", "<<56557>>">> >>,
    << <<"<<55297>>", "<<56518>>">>, <<"<<55297>>", "<<56558>>">> >>,
    << <<"<<55297>>", "<<56519>>">>, <<"<<55297>>", "<<56559>>">> >>,
    << <<"<<55297>>", "<<56520>>">>, <<"<<55297>>", "<<56560>>">> >>,
    << <<"<<55297>>", "<<56521>>">>, <<"<<55297>>", "<<56561>>">> >>,
    << <<"<<55297>>", "<<56522>>">>, <<"<<55297>>", "<<56562>>">> >>,
    << <<"<<55297>>", "<<56523>>">>, <<"<<55297>>", "<<56563>>">> >>,
    << <<"<<55297>>", "<<56524>>">>, <<"<<55297>>", "<<56564>>">> >>,
    << <<"<<55297>>", "<<56525>>">>, <<"<<55297>>", "<<56565>>">> >>,
    << <<"<<55297>>", "<<56526>>">>, <<"<<55297>>", "<<56566>>">> >>,
    << <<"<<55297>>", "<<56527>>">>, <<"<<55297>>", "<<56567>>">> >>,
    << <<"<<55297>>", "<<56528>>">>, <<"<<55297>>", "<<56568>>">> >>,
    << <<"<<55297>>", "<<56529>>">>, <<"<<55297>>", "<<56569>>">> >>,
    << <<"<<55297>>", "<<56530>>">>, <<"<<55297>>", "<<56570>>">> >>,
    << <<"<<55297>>", "<<56531>>">>, <<"<<55297>>", "<<56571>>">> >>,
    << <<"<<55297>>", "<<56688>>">>, <<"<<55297>>", "<<56727>>">> >>,
    << <<"<<55297>>", "<<56689>>">>, <<"<<55297>>", "<<56728>>">> >>,
    << <<"<<55297>>", "<<56690>>">>, <<"<<55297>>", "<<56729>>">> >>,
    << <<"<<55297>>", "<<56691>>">>, <<"<<55297>>", "<<56730>>">> >>,
    << <<"<<55297>>", "<<56692>>">>, <<"<<55297>>", "<<56731>>">> >>,
    << <<"<<55297>>", "<<56693>>">>, <<"<<55297>>", "<<56732>>">> >>,
    << <<"<<55297>>", "<<56694>>">>, <<"<<55297>>", "<<56733>>">> >>,
    << <<"<<55297>>", "<<56695>>">>, <<"<<55297>>", "<<56734>>">> >>,
    << <<"<<55297>>", "<<56696>>">>, <<"<<55297>>", "<<56735>>">> >>,
    << <<"<<55297>>", "<<56697>>">>, <<"<<55297>>", "<<56736>>">> >>,
    << <<"<<55297>>", "<<56698>>">>, <<"<<55297>>", "<<56737>>">> >>,
    << <<"<<55297>>", "<<56700>>">>, <<"<<55297>>", "<<56739>>">> >>,
    << <<"<<55297>>", "<<56701>>">>, <<"<<55297>>", "<<56740>>">> >>,
    << <<"<<55297>>", "<<56702>>">>, <<"<<55297>>", "<<56741>>">> >>,
    << <<"<<55297>>", "<<56703>>">>, <<"<<55297>>", "<<56742>>">> >>,
    << <<"<<55297>>", "<<56704>>">>, <<"<<55297>>", "<<56743>>">> >>,
    << <<"<<55297>>", "<<56705>>">>, <<"<<55297>>", "<<56744>>">> >>,
    << <<"<<55297>>", "<<56706>>">>, <<"<<55297>>", "<<56745>>">> >>,
    << <<"<<55297>>", "<<56707>>">>, <<"<<55297>>", "<<56746>>">> >>,
    << <<"<<55297>>", "<<56708>>">>, <<"<<55297>>", "<<56747>>">> >>,
    << <<"<<55297>>", "<<56709>>">>, <<"<<55297>>", "<<56748>>">> >>,
    << <<"<<55297>>", "<<56710>>">>, <<"<<55297>>", "<<56749>>">> >>,
    << <<"<<55297>>", "<<56711>>">>, <<"<<55297>>", "<<56750>>">> >>,
    << <<"<<55297>>", "<<56712>>">>, <<"<<55297>>", "<<56751>>">> >>,
    << <<"<<55297>>", "<<56713>>">>, <<"<<55297>>", "<<56752>>">> >>,
    << <<"<<55297>>", "<<56714>>">>, <<"<<55297>>", "<<56753>>">> >>,
    << <<"<<55297>>", "<<56716>>">>, <<"<<55297>>", "<<56755>>">> >>,
    << <<"<<55297>>", "<<56717>>">>, <<"<<55297>>", "<<56756>>">> >>,
    << <<"<<55297>>", "<<56718>>">>, <<"<<55297>>", "<<56757>>">> >>,
    << <<"<<55297>>", "<<56719>>">>, <<"<<55297>>", "<<56758>>">> >>,
    << <<"<<55297>>", "<<56720>>">>, <<"<<55297>>", "<<56759>>">> >>,
    << <<"<<55297>>", "<<56721>>">>, <<"<<55297>>", "<<56760>>">> >>,
    << <<"<<55297>>", "<<56722>>">>, <<"<<55297>>", "<<56761>>">> >>,
    << <<"<<55297>>", "<<56724>>">>, <<"<<55297>>", "<<56763>>">> >>,
    << <<"<<55297>>", "<<56725>>">>, <<"<<55297>>", "<<56764>>">> >>,
    << <<"<<55299>>", "<<56448>>">>, <<"<<55299>>", "<<56512>>">> >>,
    << <<"<<55299>>", "<<56449>>">>, <<"<<55299>>", "<<56513>>">> >>,
    << <<"<<55299>>", "<<56450>>">>, <<"<<55299>>", "<<56514>>">> >>,
    << <<"<<55299>>", "<<56451>>">>, <<"<<55299>>", "<<56515>>">> >>,
    << <<"<<55299>>", "<<56452>>">>, <<"<<55299>>", "<<56516>>">> >>,
    << <<"<<55299>>", "<<56453>>">>, <<"<<55299>>", "<<56517>>">> >>,
    << <<"<<55299>>", "<<56454>>">>, <<"<<55299>>", "<<56518>>">> >>,
    << <<"<<55299>>", "<<56455>>">>, <<"<<55299>>", "<<56519>>">> >>,
    << <<"<<55299>>", "<<56456>>">>, <<"<<55299>>", "<<56520>>">> >>,
    << <<"<<55299>>", "<<56457>>">>, <<"<<55299>>", "<<56521>>">> >>,
    << <<"<<55299>>", "<<56458>>">>, <<"<<55299>>", "<<56522>>">> >>,
    << <<"<<55299>>", "<<56459>>">>, <<"<<55299>>", "<<56523>>">> >>,
    << <<"<<55299>>", "<<56460>>">>, <<"<<55299>>", "<<56524>>">> >>,
    << <<"<<55299>>", "<<56461>>">>, <<"<<55299>>", "<<56525>>">> >>,
    << <<"<<55299>>", "<<56462>>">>, <<"<<55299>>", "<<56526>>">> >>,
    << <<"<<55299>>", "<<56463>>">>, <<"<<55299>>", "<<56527>>">> >>,
    << <<"<<55299>>", "<<56464>>">>, <<"<<55299>>", "<<56528>>">> >>,
    << <<"<<55299>>", "<<56465>>">>, <<"<<55299>>", "<<56529>>">> >>,
    << <<"<<55299>>", "<<56466>>">>, <<"<<55299>>", "<<56530>>">> >>,
    << <<"<<55299>>", "<<56467>>">>, <<"<<55299>>", "<<56531>>">> >>,
    << <<"<<55299>>", "<<56468>>">>, <<"<<55299>>", "<<56532>>">> >>,
    << <<"<<55299>>", "<<56469>>">>, <<"<<55299>>", "<<56533>>">> >>,
    << <<"<<55299>>", "<<56470>>">>, <<"<<55299>>", "<<56534>>">> >>,
    << <<"<<55299>>", "<<56471>>">>, <<"<<55299>>", "<<56535>>">> >>,
    << <<"<<55299>>", "<<56472>>">>, <<"<<55299>>", "<<56536>>">> >>,
    << <<"<<55299>>", "<<56473>>">>, <<"<<55299>>", "<<56537>>">> >>,
    << <<"<<55299>>", "<<56474>>">>, <<"<<55299>>", "<<56538>>">> >>,
    << <<"<<55299>>", "<<56475>>">>, <<"<<55299>>", "<<56539>>">> >>,
    << <<"<<55299>>", "<<56476>>">>, <<"<<55299>>", "<<56540>>">> >>,
    << <<"<<55299>>", "<<56477>>">>, <<"<<55299>>", "<<56541>>">> >>,
    << <<"<<55299>>", "<<56478>>">>, <<"<<55299>>", "<<56542>>">> >>,
    << <<"<<55299>>", "<<56479>>">>, <<"<<55299>>", "<<56543>>">> >>,
    << <<"<<55299>>", "<<56480>>">>, <<"<<55299>>", "<<56544>>">> >>,
    << <<"<<55299>>", "<<56481>>">>, <<"<<55299>>", "<<56545>>">> >>,
    << <<"<<55299>>", "<<56482>>">>, <<"<<55299>>", "<<56546>>">> >>,
    << <<"<<55299>>", "<<56483>>">>, <<"<<55299>>", "<<56547>>">> >>,
    << <<"<<55299>>", "<<56484>>">>, <<"<<55299>>", "<<56548>>">> >>,
    << <<"<<55299>>", "<<56485>>">>, <<"<<55299>>", "<<56549>>">> >>,
    << <<"<<55299>>", "<<56486>>">>, <<"<<55299>>", "<<56550>>">> >>,
    << <<"<<55299>>", "<<56487>>">>, <<"<<55299>>", "<<56551>>">> >>,
    << <<"<<55299>>", "<<56488>>">>, <<"<<55299>>", "<<56552>>">> >>,
    << <<"<<55299>>", "<<56489>>">>, <<"<<55299>>", "<<56553>>">> >>,
    << <<"<<55299>>", "<<56490>>">>, <<"<<55299>>", "<<56554>>">> >>,
    << <<"<<55299>>", "<<56491>>">>, <<"<<55299>>", "<<56555>>">> >>,
    << <<"<<55299>>", "<<56492>>">>, <<"<<55299>>", "<<56556>>">> >>,
    << <<"<<55299>>", "<<56493>>">>, <<"<<55299>>", "<<56557>>">> >>,
    << <<"<<55299>>", "<<56494>>">>, <<"<<55299>>", "<<56558>>">> >>,
    << <<"<<55299>>", "<<56495>>">>, <<"<<55299>>", "<<56559>>">> >>,
    << <<"<<55299>>", "<<56496>>">>, <<"<<55299>>", "<<56560>>">> >>,
    << <<"<<55299>>", "<<56497>>">>, <<"<<55299>>", "<<56561>>">> >>,
    << <<"<<55299>>", "<<56498>>">>, <<"<<55299>>", "<<56562>>">> >>,
    << <<"<<55299>>", "<<56656>>">>, <<"<<55299>>", "<<56688>>">> >>,
    << <<"<<55299>>", "<<56657>>">>, <<"<<55299>>", "<<56689>>">> >>,
    << <<"<<55299>>", "<<56658>>">>, <<"<<55299>>", "<<56690>>">> >>,
    << <<"<<55299>>", "<<56659>>">>, <<"<<55299>>", "<<56691>>">> >>,
    << <<"<<55299>>", "<<56660>>">>, <<"<<55299>>", "<<56692>>">> >>,
    << <<"<<55299>>", "<<56661>>">>, <<"<<55299>>", "<<56693>>">> >>,
    << <<"<<55299>>", "<<56662>>">>, <<"<<55299>>", "<<56694>>">> >>,
    << <<"<<55299>>", "<<56663>>">>, <<"<<55299>>", "<<56695>>">> >>,
    << <<"<<55299>>", "<<56664>>">>, <<"<<55299>>", "<<56696>>">> >>,
    << <<"<<55299>>", "<<56665>>">>, <<"<<55299>>", "<<56697>>">> >>,
    << <<"<<55299>>", "<<56666>>">>, <<"<<55299>>", "<<56698>>">> >>,
    << <<"<<55299>>", "<<56667>>">>, <<"<<55299>>", "<<56699>>">> >>,
    << <<"<<55299>>", "<<56668>>">>, <<"<<55299>>", "<<56700>>">> >>,
    << <<"<<55299>>", "<<56669>>">>, <<"<<55299>>", "<<56701>>">> >>,
    << <<"<<55299>>", "<<56670>>">>, <<"<<55299>>", "<<56702>>">> >>,
    << <<"<<55299>>", "<<56671>>">>, <<"<<55299>>", "<<56703>>">> >>,
    << <<"<<55299>>", "<<56672>>">>, <<"<<55299>>", "<<56704>>">> >>,
    << <<"<<55299>>", "<<56673>>">>, <<"<<55299>>", "<<56705>>">> >>,
    << <<"<<55299>>", "<<56674>>">>, <<"<<55299>>", "<<56706>>">> >>,
    << <<"<<55299>>", "<<56675>>">>, <<"<<55299>>", "<<56707>>">> >>,
    << <<"<<55299>>", "<<56676>>">>, <<"<<55299>>", "<<56708>>">> >>,
    << <<"<<55299>>", "<<56677>>">>, <<"<<55299>>", "<<56709>>">> >>,
    << <<"<<55302>>", "<<56480>>">>, <<"<<55302>>", "<<56512>>">> >>,
    << <<"<<55302>>", "<<56481>>">>, <<"<<55302>>", "<<56513>>">> >>,
    << <<"<<55302>>", "<<56482>>">>, <<"<<55302>>", "<<56514>>">> >>,
    << <<"<<55302>>", "<<56483>>">>, <<"<<55302>>", "<<56515>>">> >>,
    << <<"<<55302>>", "<<56484>>">>, <<"<<55302>>", "<<56516>>">> >>,
    << <<"<<55302>>", "<<56485>>">>, <<"<<55302>>", "<<56517>>">> >>,
    << <<"<<55302>>", "<<56486>>">>, <<"<<55302>>", "<<56518>>">> >>,
    << <<"<<55302>>", "<<56487>>">>, <<"<<55302>>", "<<56519>>">> >>,
    << <<"<<55302>>", "<<56488>>">>, <<"<<55302>>", "<<56520>>">> >>,
    << <<"<<55302>>", "<<56489>>">>, <<"<<55302>>", "<<56521>>">> >>,
    << <<"<<55302>>", "<<56490>>">>, <<"<<55302>>", "<<56522>>">> >>,
    << <<"<<55302>>", "<<56491>>">>, <<"<<55302>>", "<<56523>>">> >>,
    << <<"<<55302>>", "<<56492>>">>, <<"<<55302>>", "<<56524>>">> >>,
    << <<"<<55302>>", "<<56493>>">>, <<"<<55302>>", "<<56525>>">> >>,
    << <<"<<55302>>", "<<56494>>">>, <<"<<55302>>", "<<56526>>">> >>,
    << <<"<<55302>>", "<<56495>>">>, <<"<<55302>>", "<<56527>>">> >>,
    << <<"<<55302>>", "<<56496>>">>, <<"<<55302>>", "<<56528>>">> >>,
    << <<"<<55302>>", "<<56497>>">>, <<"<<55302>>", "<<56529>>">> >>,
    << <<"<<55302>>", "<<56498>>">>, <<"<<55302>>", "<<56530>>">> >>,
    << <<"<<55302>>", "<<56499>>">>, <<"<<55302>>", "<<56531>>">> >>,
    << <<"<<55302>>", "<<56500>>">>, <<"<<55302>>", "<<56532>>">> >>,
    << <<"<<55302>>", "<<56501>>">>, <<"<<55302>>", "<<56533>>">> >>,
    << <<"<<55302>>", "<<56502>>">>, <<"<<55302>>", "<<56534>>">> >>,
    << <<"<<55302>>", "<<56503>>">>, <<"<<55302>>", "<<56535>>">> >>,
    << <<"<<55302>>", "<<56504>>">>, <<"<<55302>>", "<<56536>>">> >>,
    << <<"<<55302>>", "<<56505>>">>, <<"<<55302>>", "<<56537>>">> >>,
    << <<"<<55302>>", "<<56506>>">>, <<"<<55302>>", "<<56538>>">> >>,
    << <<"<<55302>>", "<<56507>>">>, <<"<<55302>>", "<<56539>>">> >>,
    << <<"<<55302>>", "<<56508>>">>, <<"<<55302>>", "<<56540>>">> >>,
    << <<"<<55302>>", "<<56509>>">>, <<"<<55302>>", "<<56541>>">> >>,
    << <<"<<55302>>", "<<56510>>">>, <<"<<55302>>", "<<56542>>">> >>,
    << <<"<<55302>>", "<<56511>>">>, <<"<<55302>>", "<<56543>>">> >>,
    << <<"<<55323>>", "<<56896>>">>, <<"<<55323>>", "<<56928>>">> >>,
    << <<"<<55323>>", "<<56897>>">>, <<"<<55323>>", "<<56929>>">> >>,
    << <<"<<55323>>", "<<56898>>">>, <<"<<55323>>", "<<56930>>">> >>,
    << <<"<<55323>>", "<<56899>>">>, <<"<<55323>>", "<<56931>>">> >>,
    << <<"<<55323>>", "<<56900>>">>, <<"<<55323>>", "<<56932>>">> >>,
    << <<"<<55323>>", "<<56901>>">>, <<"<<55323>>", "<<56933>>">> >>,
    << <<"<<55323>>", "<<56902>>">>, <<"<<55323>>", "<<56934>>">> >>,
    << <<"<<55323>>", "<<56903>>">>, <<"<<55323>>", "<<56935>>">> >>,
    << <<"<<55323>>", "<<56904>>">>, <<"<<55323>>", "<<56936>>">> >>,
    << <<"<<55323>>", "<<56905>>">>, <<"<<55323>>", "<<56937>>">> >>,
    << <<"<<55323>>", "<<56906>>">>, <<"<<55323>>", "<<56938>>">> >>,
    << <<"<<55323>>", "<<56907>>">>, <<"<<55323>>", "<<56939>>">> >>,
    << <<"<<55323>>", "<<56908>>">>, <<"<<55323>>", "<<56940>>">> >>,
    << <<"<<55323>>", "<<56909>>">>, <<"<<55323>>", "<<56941>>">> >>,
    << <<"<<55323>>", "<<56910>>">>, <<"<<55323>>", "<<56942>>">> >>,
    << <<"<<55323>>", "<<56911>>">>, <<"<<55323>>", "<<56943>>">> >>,
    << <<"<<55323>>", "<<56912>>">>, <<"<<55323>>", "<<56944>>">> >>,
    << <<"<<55323>>", "<<56913>>">>, <<"<<55323>>", "<<56945>>">> >>,
    << <<"<<55323>>", "<<56914>>">>, <<"<<55323>>", "<<56946>>">> >>,
    << <<"<<55323>>", "<<56915>>">>, <<"<<55323>>", "<<56947>>">> >>,
    << <<"<<55323>>", "<<56916>>">>, <<"<<55323>>", "<<56948>>">> >>,
    << <<"<<55323>>", "<<56917>>">>, <<"<<55323>>", "<<56949>>">> >>,
    << <<"<<55323>>", "<<56918>>">>, <<"<<55323>>", "<<56950>>">> >>,
    << <<"<<55323>>", "<<56919>>">>, <<"<<55323>>", "<<56951>>">> >>,
    << <<"<<55323>>", "<<56920>>">>, <<"<<55323>>", "<<56952>>">> >>,
    << <<"<<55323>>", "<<56921>>">>, <<"<<55323>>", "<<56953>>">> >>,
    << <<"<<55323>>", "<<56922>>">>, <<"<<55323>>", "<<56954>>">> >>,
    << <<"<<55323>>", "<<56923>>">>, <<"<<55323>>", "<<56955>>">> >>,
    << <<"<<55323>>", "<<56924>>">>, <<"<<55323>>", "<<56956>>">> >>,
    << <<"<<55323>>", "<<56925>>">>, <<"<<55323>>", "<<56957>>">> >>,
    << <<"<<55323>>", "<<56926>>">>, <<"<<55323>>", "<<56958>>">> >>,
    << <<"<<55323>>", "<<56927>>">>, <<"<<55323>>", "<<56959>>">> >>,
    << <<"<<55323>>", "<<56992>>">>, <<"<<55323>>", "<<57019>>">> >>,
    << <<"<<55323>>", "<<56993>>">>, <<"<<55323>>", "<<57020>>">> >>,
    << <<"<<55323>>", "<<56994>>">>, <<"<<55323>>", "<<57021>>">> >>,
    << <<"<<55323>>", "<<56995>>">>, <<"<<55323>>", "<<57022>>">> >>,
    << <<"<<55323>>", "<<56996>>">>, <<"<<55323>>", "<<57023>>">> >>,
    << <<"<<55323>>", "<<56997>>">>, <<"<<55323>>", "<<57024>>">> >>,
    << <<"<<55323>>", "<<56998>>">>, <<"<<55323>>", "<<57025>>">> >>,
    << <<"<<55323>>", "<<56999>>">>, <<"<<55323>>", "<<57026>>">> >>,
    << <<"<<55323>>", "<<57000>>">>, <<"<<55323>>", "<<57027>>">> >>,
    << <<"<<55323>>", "<<57001>>">>, <<"<<55323>>", "<<57028>>">> >>,
    << <<"<<55323>>", "<<57002>>">>, <<"<<55323>>", "<<57029>>">> >>,
    << <<"<<55323>>", "<<57003>>">>, <<"<<55323>>", "<<57030>>">> >>,
    << <<"<<55323>>", "<<57004>>">>, <<"<<55323>>", "<<57031>>">> >>,
    << <<"<<55323>>", "<<57005>>">>, <<"<<55323>>", "<<57032>>">> >>,
    << <<"<<55323>>", "<<57006>>">>, <<"<<55323>>", "<<57033>>">> >>,
    << <<"<<55323>>", "<<57007>>">>, <<"<<55323>>", "<<57034>>">> >>,
    << <<"<<55323>>", "<<57008>>">>, <<"<<55323>>", "<<57035>>">> >>,
    << <<"<<55323>>", "<<57009>>">>, <<"<<55323>>", "<<57036>>">> >>,
    << <<"<<55323>>", "<<57010>>">>, <<"<<55323>>", "<<57037>>">> >>,
    << <<"<<55323>>", "<<57011>>">>, <<"<<55323>>", "<<57038>>">> >>,
    << <<"<<55323>>", "<<57012>>">>, <<"<<55323>>", "<<57039>>">> >>,
    << <<"<<55323>>", "<<57013>>">>, <<"<<55323>>", "<<57040>>">> >>,
    << <<"<<55323>>", "<<57014>>">>, <<"<<55323>>", "<<57041>>">> >>,
    << <<"<<55323>>", "<<57015>>">>, <<"<<55323>>", "<<57042>>">> >>,
    << <<"<<55323>>", "<<57016>>">>, <<"<<55323>>", "<<57043>>">> >>,
    << <<"<<55354>>", "<<56576>>">>, <<"<<55354>>", "<<56610>>">> >>,
    << <<"<<55354>>", "<<56577>>">>, <<"<<55354>>", "<<56611>>">> >>,
    << <<"<<55354>>", "<<56578>>">>, <<"<<55354>>", "<<56612>>">> >>,
    << <<"<<55354>>", "<<56579>>">>, <<"<<55354>>", "<<56613>>">> >>,
    << <<"<<55354>>", "<<56580>>">>, <<"<<55354>>", "<<56614>>">> >>,
    << <<"<<55354>>", "<<56581>>">>, <<"<<55354>>", "<<56615>>">> >>,
    << <<"<<55354>>", "<<56582>>">>, <<"<<55354>>", "<<56616>>">> >>,
    << <<"<<55354>>", "<<56583>>">>, <<"<<55354>>", "<<56617>>">> >>,
    << <<"<<55354>>", "<<56584>>">>, <<"<<55354>>", "<<56618>>">> >>,
    << <<"<<55354>>", "<<56585>>">>, <<"<<55354>>", "<<56619>>">> >>,
    << <<"<<55354>>", "<<56586>>">>, <<"<<55354>>", "<<56620>>">> >>,
    << <<"<<55354>>", "<<56587>>">>, <<"<<55354>>", "<<56621>>">> >>,
    << <<"<<55354>>", "<<56588>>">>, <<"<<55354>>", "<<56622>>">> >>,
    << <<"<<55354>>", "<<56589>>">>, <<"<<55354>>", "<<56623>>">> >>,
    << <<"<<55354>>", "<<56590>>">>, <<"<<55354>>", "<<56624>>">> >>,
    << <<"<<55354>>", "<<56591>>">>, <<"<<55354>>", "<<56625>>">> >>,
    << <<"<<55354>>", "<<56592>>">>, <<"<<55354>>", "<<56626>>">> >>,
    << <<"<<55354>>", "<<56593>>">>, <<"<<55354>>", "<<56627>>">> >>,
    << <<"<<55354>>", "<<56594>>">>, <<"<<55354>>", "<<56628>>">> >>,
    << <<"<<55354>>", "<<56595>>">>, <<"<<55354>>", "<<56629>>">> >>,
    << <<"<<55354>>", "<<56596>>">>, <<"<<55354>>", "<<56630>>">> >>,
    << <<"<<55354>>", "<<56597>>">>, <<"<<55354>>", "<<56631>>">> >>,
    << <<"<<55354>>", "<<56598>>">>, <<"<<55354>>", "<<56632>>">> >>,
    << <<"<<55354>>", "<<56599>>">>, <<"<<55354>>", "<<56633>>">> >>,
    << <<"<<55354>>", "<<56600>>">>, <<"<<55354>>", "<<56634>>">> >>,
    << <<"<<55354>>", "<<56601>>">>, <<"<<55354>>", "<<56635>>">> >>,
    << <<"<<55354>>", "<<56602>>">>, <<"<<55354>>", "<<56636>>">> >>,
    << <<"<<55354>>", "<<56603>>">>, <<"<<55354>>", "<<56637>>">> >>,
    << <<"<<55354>>", "<<56604>>">>, <<"<<55354>>", "<<56638>>">> >>,
    << <<"<<55354>>", "<<56605>>">>, <<"<<55354>>", "<<56639>>">> >>,
    << <<"<<55354>>", "<<56606>>">>, <<"<<55354>>", "<<56640>>">> >>,
    << <<"<<55354>>", "<<56607>>">>, <<"<<55354>>", "<<56641>>">> >>,
    << <<"<<55354>>", "<<56608>>">>, <<"<<55354>>", "<<56642>>">> >>,
    << <<"<<55354>>", "<<56609>>">>, <<"<<55354>>", "<<56643>>">> >>>>
\* The code points, first to last, of the characters that are cased and not
\* case-ignorable, and of those that are case-ignorable (Unicode 17).
CasedRanges ==
  <<<<65, 90>>, <<97, 122>>, <<170, 170>>, <<181, 181>>, <<186, 186>>, <<192, 214>>,
    <<216, 246>>, <<248, 442>>, <<444, 447>>, <<452, 659>>, <<662, 687>>, <<880, 883>>,
    <<886, 887>>, <<891, 893>>, <<895, 895>>, <<902, 902>>, <<904, 906>>, <<908, 908>>,
    <<910, 929>>, <<931, 1013>>, <<1015, 1153>>, <<1162, 1327>>, <<1329, 1366>>,
    <<1376, 1416>>, <<4256, 4293>>, <<4295, 4295>>, <<4301, 4301>>, <<4304, 4346>>,
    <<4349, 4351>>, <<5024, 5109>>, <<5112, 5117>>, <<7296, 7306>>, <<7312, 7354>>,
    <<7357, 7359>>, <<7424, 7467>>, <<7531, 7543>>, <<7545, 7578>>, <<7680, 7957>>,
    <<7960, 7965>>, <<7968, 8005>>, <<8008, 8013>>, <<8016, 8023>>, <<8025, 8025>>,
    <<8027, 8027>>, <<8029, 8029>>, <<8031, 8061>>, <<8064, 8116>>, <<8118, 8124>>,
    <<8126, 8126>>, <<8130, 8132>>, <<8134, 8140>>, <<8144, 8147>>, <<8150, 8155>>,
    <<8160, 8172>>, <<8178, 8180>>, <<8182, 8188>>, <<8450, 8450>>, <<8455, 8455>>,
    <<8458, 8467>>, <<8469, 8469>>, <<8473, 8477>>, <<8484, 8484>>, <<8486, 8486>>,
    <<8488, 8488>>, <<8490, 8493>>, <<8495, 8500>>, <<8505, 8505>>, <<8508, 8511>>,
    <<8517, 8521>>, <<8526, 8526>>, <<8544, 8575>>, <<8579, 8580>>, <<9398, 9449>>,
    <<11264, 11387>>, <<11390, 11492>>, <<11499, 11502>>, <<11506, 11507>>, <<11520, 11557>>,
    <<11559, 11559>>, <<11565, 11565>>, <<42560, 42605>>, <<42624, 42651>>, <<42786, 42863>>,
    <<42865, 42887>>, <<42891, 42894>>, <<42896, 42972>>, <<42997, 42998>>, <<43002, 43002>>,
    <<43824, 43866>>, <<43872, 43880>>, <<43888, 43967>>, <<64256, 64262>>, <<64275, 64279>>,
    <<65313, 65338>>, <<65345, 65370>>, <<66560, 66639>>, <<66736, 66771>>, <<66776, 66811>>,
    <<66928, 66938>>, <<66940, 66954>>, <<66956, 66962>>, <<66964, 66965>>, <<66967, 66977>>,
    <<66979, 66993>>, <<66995, 67001>>, <<67003, 67004>>, <<68736, 68786>>, <<68800, 68850>>,
    <<68944, 68965>>, <<68976, 68997>>, <<71840, 71903>>, <<93760, 93823>>, <<93856, 93880>>,
    <<93883, 93907>>, <<119808, 119892>>, <<119894, 119964>>, <<119966, 119967>>,
    <<119970, 119970>>, <<119973, 119974>>, <<119977, 119980>>, <<119982, 119993>>,
    <<119995, 119995>>, <<119997, 120003>>, <<120005, 120069>>, <<120071, 120074>>,
    <<120077, 120084>>, <<120086, 120092>>, <<120094, 120121>>, <<120123, 120126>>,
    <<120128, 120132>>, <<120134, 120134>>, <<120138, 120144>>, <<120146, 120485>>,
    <<120488, 120512>>, <<120514, 120538>>, <<120540, 120570>>, <<120572, 120596>>,
    <<120598, 120628>>, <<120630, 120654>>, <<120656, 120686>>, <<120688, 120712>>,
    <<120714, 120744>>, <<120746, 120770>>, <<120772, 120779>>, <<122624, 122633>>,
    <<122635, 122654>>, <<122661, 122666>>, <<125184, 125251>>, <<127280, 127305>>,
    <<127312, 127337>>, <<127344, 127369>>>>
CaseIgnorableRanges ==
  <<<<39, 39>>, <<46, 46>>, <<58, 58>>, <<94, 94>>, <<96, 96>>, <<168, 168>>, <<173, 173>>,
    <<175, 175>>, <<180, 180>>, <<183, 184>>, <<688, 879>>, <<884, 885>>, <<890, 890>>,
    <<900, 901>>, <<903, 903>>, <<1155, 1161>>, <<1369, 1369>>, <<1375, 1375>>, <<1425, 1469>>,
    <<1471, 1471>>, <<1473, 1474>>, <<1476, 1477>>, <<1479, 1479>>, <<1524, 1524>>,
    <<1536, 1541>>, <<1552, 1562>>, <<1564, 1564>>, <<1600, 1600>>, <<1611, 1631>>,
    <<1648, 1648>>, <<1750, 1757>>, <<1759, 1768>>, <<1770, 1773>>, <<1807, 1807>>,
    <<1809, 1809>>, <<1840, 1866>>, <<1958, 1968>>, <<2027, 2037>>, <<2042, 2042>>,
    <<2045, 2045>>, <<2070, 2093>>, <<2137, 2139>>, <<2184, 2184>>, <<2192, 2193>>,
    <<2199, 2207>>, <<2249, 2306>>, <<2362, 2362>>, <<2364, 2364>>, <<2369, 2376>>,
    <<2381, 2381>>, <<2385, 2391>>, <<2402, 2403>>, <<2417, 2417>>, <<2433, 2433>>,
    <<2492, 2492>>, <<2497, 2500>>, <<2509, 2509>>, <<2530, 2531>>, <<2558, 2558>>,
    <<2561, 2562>>, <<2620, 2620>>, <<2625, 2626>>, <<2631, 2632>>, <<2635, 2637>>,
    <<2641, 2641>>, <<2672, 2673>>, <<2677, 2677>>, <<2689, 2690>>, <<2748, 2748>>,
    <<2753, 2757>>, <<2759, 2760>>, <<2765, 2765>>, <<2786, 2787>>, <<2810, 2815>>,
    <<2817, 2817>>, <<2876, 2876>>, <<2879, 2879>>, <<2881, 2884>>, <<2893, 2893>>,
    <<2901, 2902>>, <<2914, 2915>>, <<2946, 2946>>, <<3008, 3008>>, <<3021, 3021>>,
    <<3072, 3072>>, <<3076, 3076>>, <<3132, 3132>>, <<3134, 3136>>, <<3142, 3144>>,
    <<3146, 3149>>, <<3157, 3158>>, <<3170, 3171>>, <<3201, 3201>>, <<3260, 3260>>,
    <<3263, 3263>>, <<3270, 3270>>, <<3276, 3277>>, <<3298, 3299>>, <<3328, 3329>>,
    <<3387, 3388>>, <<3393, 3396>>, <<3405, 3405>>, <<3426, 3427>>, <<3457, 3457>>,
    <<3530, 3530>>, <<3538, 3540>>, <<3542, 3542>>, <<3633, 3633>>, <<3636, 3642>>,
    <<3654, 3662>>, <<3761, 3761>>, <<3764, 3772>>, <<3782, 3782>>, <<3784, 3790>>,
    <<3864, 3865>>, <<3893, 3893>>, <<3895, 3895>>, <<3897, 3897>>, <<3953, 3966>>,
    <<3968, 3972>>, <<3974, 3975>>, <<3981, 3991>>, <<3993, 4028>>, <<4038, 4038>>,
    <<4141, 4144>>, <<4146, 4151>>, <<4153, 4154>>, <<4157, 4158>>, <<4184, 4185>>,
    <<4190, 4192>>, <<4209, 4212>>, <<4226, 4226>>, <<4229, 4230>>, <<4237, 4237>>,
    <<4253, 4253>>, <<4348, 4348>>, <<4957, 4959>>, <<5906, 5908>>, <<5938, 5939>>,
    <<5970, 5971>>, <<6002, 6003>>, <<6068, 6069>>, <<6071, 6077>>, <<6086, 6086>>,
    <<6089, 6099>>, <<6103, 6103>>, <<6109, 6109>>, <<6155, 6159>>, <<6211, 6211>>,
    <<6277, 6278>>, <<6313, 6313>>, <<6432, 6434>>, <<6439, 6440>>, <<6450, 6450>>,
    <<6457, 6459>>, <<6679, 6680>>, <<6683, 6683>>, <<6742, 6742>>, <<6744, 6750>>,
    <<6752, 6752>>, <<6754, 6754>>, <<6757, 6764>>, <<6771, 6780>>, <<6783, 6783>>,
    <<6823, 6823>>, <<6832, 6877>>, <<6880, 6891>>, <<6912, 6915>>, <<6964, 6964>>,
    <<6966, 6970>>, <<6972, 6972>>, <<6978, 6978>>, <<7019, 7027>>, <<7040, 7041>>,
    <<7074, 7077>>, <<7080, 7081>>, <<7083, 7085>>, <<7142, 7142>>, <<7144, 7145>>,
    <<7149, 7149>>, <<7151, 7153>>, <<7212, 7219>>, <<7222, 7223>>, <<7288, 7293>>,
    <<7376, 7378>>, <<7380, 7392>>, <<7394, 7400>>, <<7405, 7405>>, <<7412, 7412>>,
    <<7416, 7417>>, <<7468, 7530>>, <<7544, 7544>>, <<7579, 7679>>, <<8125, 8125>>,
    <<8127, 8129>>, <<8141, 8143>>, <<8157, 8159>>, <<8173, 8175>>, <<8189, 8190>>,
    <<8203, 8207>>, <<8216, 8217>>, <<8228, 8228>>, <<8231, 8231>>, <<8234, 8238>>,
    <<8288, 8292>>, <<8294, 8303>>, <<8305, 8305>>, <<8319, 8319>>, <<8336, 8348>>,
    <<8400, 8432>>, <<11388, 11389>>, <<11503, 11505>>, <<11631, 11631>>, <<11647, 11647>>,
    <<11744, 11775>>, <<11823, 11823>>, <<12293, 12293>>, <<12330, 12333>>, <<12337, 12341>>,
    <<12347, 12347>>, <<12441, 12446>>, <<12540, 12542>>, <<40981, 40981>>, <<42232, 42237>>,
    <<42508, 42508>>, <<42607, 42610>>, <<42612, 42621>>, <<42623, 42623>>, <<42652, 42655>>,
    <<42736, 42737>>, <<42752, 42785>>, <<42864, 42864>>, <<42888, 42890>>, <<42993, 42996>>,
    <<43000, 43001>>, <<43010, 43010>>, <<43014, 43014>>, <<43019, 43019>>, <<43045, 43046>>,
    <<43052, 43052>>, <<43204, 43205>>, <<43232, 43249>>, <<43263, 43263>>, <<43302, 43309>>,
    <<43335, 43345>>, <<43392, 43394>>, <<43443, 43443>>, <<43446, 43449>>, <<43452, 43453>>,
    <<43471, 43471>>, <<43493, 43494>>, <<43561, 43566>>, <<43569, 43570>>, <<43573, 43574>>,
    <<43587, 43587>>, <<43596, 43596>>, <<43632, 43632>>, <<43644, 43644>>, <<43696, 43696>>,
    <<43698, 43700>>, <<43703, 43704>>, <<43710, 43711>>, <<43713, 43713>>, <<43741, 43741>>,
    <<43756, 43757>>, <<43763, 43764>>, <<43766, 43766>>, <<43867, 43871>>, <<43881, 43883>>,
    <<44005, 44005>>, <<44008, 44008>>, <<44013, 44013>>, <<64286, 64286>>, <<64434, 64450>>,
    <<65024, 65039>>, <<65043, 65043>>, <<65056, 65071>>, <<65106, 65106>>, <<65109, 65109>>,
    <<65279, 65279>>, <<65287, 65287>>, <<65294, 65294>>, <<65306, 65306>>, <<65342, 65342>>,
    <<65344, 65344>>, <<65392, 65392>>, <<65438, 65439>>, <<65507, 65507>>, <<65529, 65531>>,
    <<66045, 66045>>, <<66272, 66272>>, <<66422, 66426>>, <<67456, 67461>>, <<67463, 67504>>,
    <<67506, 67514>>, <<68097, 68099>>, <<68101, 68102>>, <<68108, 68111>>, <<68152, 68154>>,
    <<68159, 68159>>, <<68325, 68326>>, <<68900, 68903>>, <<68942, 68942>>, <<68969, 68973>>,
    <<68975, 68975>>, <<69291, 69292>>, <<69317, 69317>>, <<69370, 69375>>, <<69446, 69456>>,
    <<69506, 69509>>, <<69633, 69633>>, <<69688, 69702>>, <<69744, 69744>>, <<69747, 69748>>,
    <<69759, 69761>>, <<69811, 69814>>, <<69817, 69818>>, <<69821, 69821>>, <<69826, 69826>>,
    <<69837, 69837>>, <<69888, 69890>>, <<69927, 69931>>, <<69933, 69940>>, <<70003, 70003>>,
    <<70016, 70017>>, <<70070, 70078>>, <<70089, 70092>>, <<70095, 70095>>, <<70191, 70193>>,
    <<70196, 70196>>, <<70198, 70199>>, <<70206, 70206>>, <<70209, 70209>>, <<70367, 70367>>,
    <<70371, 70378>>, <<70400, 70401>>, <<70459, 70460>>, <<70464, 70464>>, <<70502, 70508>>,
    <<70512, 70516>>, <<70587, 70592>>, <<70606, 70606>>, <<70608, 70608>>, <<70610, 70610>>,
    <<70625, 70626>>, <<70712, 70719>>, <<70722, 70724>>, <<70726, 70726>>, <<70750, 70750>>,
    <<70835, 70840>>, <<70842, 70842>>, <<70847, 70848>>, <<70850, 70851>>, <<71090, 71093>>,
    <<71100, 71101>>, <<71103, 71104>>, <<71132, 71133>>, <<71219, 71226>>, <<71229, 71229>>,
    <<71231, 71232>>, <<71339, 71339>>, <<71341, 71341>>, <<71344, 71349>>, <<71351, 71351>>,
    <<71453, 71453>>, <<71455, 71455>>, <<71458, 71461>>, <<71463, 71467>>, <<71727, 71735>>,
    <<71737, 71738>>, <<71995, 71996>>, <<71998, 71998>>, <<72003, 72003>>, <<72148, 72151>>,
    <<72154, 72155>>, <<72160, 72160>>, <<72193, 72202>>, <<72243, 72248>>, <<72251, 72254>>,
    <<72263, 72263>>, <<72273, 72278>>, <<72281, 72283>>, <<72330, 72342>>, <<72344, 72345>>,
    <<72544, 72544>>, <<72546, 72548>>, <<72550, 72550>>, <<72752, 72758>>, <<72760, 72765>>,
    <<72767, 72767>>, <<72850, 72871>>, <<72874, 72880>>, <<72882, 72883>>, <<72885, 72886>>,
    <<73009, 73014>>, <<73018, 73018>>, <<73020, 73021>>, <<73023, 73029>>, <<73031, 73031>>,
    <<73104, 73105>>, <<73109, 73109>>, <<73111, 73111>>, <<73177, 73177>>, <<73459, 73460>>,
    <<73472, 73473>>, <<73526, 73530>>, <<73536, 73536>>, <<73538, 73538>>, <<73562, 73562>>,
    <<78896, 78912>>, <<78919, 78933>>, <<90398, 90409>>, <<90413, 90415>>, <<92912, 92916>>,
    <<92976, 92982>>, <<92992, 92995>>, <<93504, 93506>>, <<93547, 93548>>, <<94031, 94031>>,
    <<94095, 94111>>, <<94176, 94177>>, <<94179, 94180>>, <<94194, 94195>>, <<110576, 110579>>,
    <<110581, 110587>>, <<110589, 110590>>, <<113821, 113822>>, <<113824, 113827>>,
    <<118528, 118573>>, <<118576, 118598>>, <<119143, 119145>>, <<119155, 119170>>,
    <<119173, 119179>>, <<119210, 119213>>, <<119362, 119364>>, <<121344, 121398>>,
    <<121403, 121452>>, <<121461, 121461>>, <<121476, 121476>>, <<121499, 121503>>,
    <<121505, 121519>>, <<122880, 122886>>, <<122888, 122904>>, <<122907, 122913>>,
    <<122915, 122916>>, <<122918, 122922>>, <<122928, 122989>>, <<123023, 123023>>,
    <<123184, 123197>>, <<123566, 123566>>, <<123628, 123631>>, <<124139, 124143>>,
    <<124398, 124399>>, <<124643, 124643>>, <<124646, 124646>>, <<124654, 124655>>,
    <<124661, 124661>>, <<124671, 124671>>, <<125136, 125142>>, <<125252, 125259>>,
    <<127995, 127999>>, <<917505, 917505>>, <<917536, 917631>>, <<917760, 917999>>>>

LowerCaseEntry(key) ==
  IF \E k \in 1..Len(LowerCaseMapping) : LowerCaseMapping[k][1] = key
  THEN CHOOSE k \in 1..Len(LowerCaseMapping) : LowerCaseMapping[k][1] = key
  ELSE 0

\* The code units of the character with code point c.
UnitsOf(c) ==
  IF c < 65536 THEN <<CharOfCode(c)>>
  ELSE <<Unit(55296 + ((c - 65536) \div 1024)), Unit(56320 + ((c - 65536) % 1024))>>
Characters(ranges) ==
  UNION {{UnitsOf(c) : c \in ranges[k][1]..ranges[k][2]} : k \in 1..Len(ranges)}
Cased == Characters(CasedRanges)
CaseIgnorable == Characters(CaseIgnorableRanges)
\* The code unit at k of s is, or is one surrogate of, a character of the set.
CharacterAt(s, k, set) ==
  \/ <<s[k]>> \in set
  \/ k < Len(s) /\ <<s[k], s[k + 1]>> \in set
  \/ k > 1 /\ <<s[k - 1], s[k]>> \in set

\* Capital sigma (U+03A3) becomes final small sigma (U+03C2) when a cased
\* character stands before it and none after it, case-ignorable characters in
\* between not counted, and small sigma (U+03C3) otherwise.
Sigma == Unit(931)
FinalSigma(s, i) ==
  /\ \E j \in 1..(i - 1) :
       /\ CharacterAt(s, j, Cased)
       /\ \A k \in (j + 1)..(i - 1) : CharacterAt(s, k, CaseIgnorable)
  /\ ~\E j \in (i + 1)..Len(s) :
        /\ CharacterAt(s, j, Cased)
        /\ \A k \in (i + 1)..(j - 1) : CharacterAt(s, k, CaseIgnorable)

\* What the code unit at i of s becomes: a surrogate follows its pair.
LowerCaseAt(s, i) ==
  IF s[i] \in DOMAIN AsciiLower THEN <<AsciiLower[s[i]]>>
  ELSE IF s[i] = Sigma THEN IF FinalSigma(s, i) THEN <<Unit(962)>> ELSE <<Unit(963)>>
  ELSE IF i < Len(s) /\ LowerCaseEntry(<<s[i], s[i + 1]>>) > 0
  THEN <<LowerCaseMapping[LowerCaseEntry(<<s[i], s[i + 1]>>)][2][1]>>
  ELSE IF i > 1 /\ LowerCaseEntry(<<s[i - 1], s[i]>>) > 0
  THEN <<LowerCaseMapping[LowerCaseEntry(<<s[i - 1], s[i]>>)][2][2]>>
  ELSE IF LowerCaseEntry(<<s[i]>>) > 0 THEN LowerCaseMapping[LowerCaseEntry(<<s[i]>>)][2]
  ELSE <<s[i]>>

RECURSIVE LowerCaseFrom(_, _, _)
LowerCaseFrom(s, a, b) ==
  IF a > b THEN <<>>
  ELSE IF a = b THEN LowerCaseAt(s, a)
  ELSE LowerCaseFrom(s, a, (a + b) \div 2) \o LowerCaseFrom(s, (a + b) \div 2 + 1, b)

\* String.prototype.toLowerCase, which the `lowercase: true` setter of the
\* email path applies to what is saved and to what is looked up.
ToLowerCase(s) == LowerCaseFrom(s, 1, Len(s))

\* !email, !password: the field is absent or the empty string.
Missing(has, value) == ~has \/ value = <<>>

\* password.length < 6
TooShort(password) == Len(password) < 6

\* User.findOne({ email }): the stored user with that email, or null.  A
\* request without an email is sent as a query for no email, which finds no
\* user, every stored user having one.
FindOne(store, email) ==
  IF \E u \in store : u.email = ToLowerCase(email)
  THEN CHOOSE u \in store : u.email = ToLowerCase(email)
  ELSE NoUser

\* Variant: a collection without the unique index on email.
DuplicateKey_NoIndex(store, email) == FALSE

\* The unique index on email refuses a second document with that email.
DuplicateKey(store, email) == \E u \in store : u.email = ToLowerCase(email)

\* new User({ email, passwordHash }) as the collection stores it.
NewUser(store, email, passwordHash) ==
  [id |-> Cardinality(store) + 1, email |-> ToLowerCase(email), passwordHash |-> passwordHash]

\* bcrypt.hash(password, salt)
BcryptHash(password, salt) == [salt |-> salt, password |-> password, hashed |-> TRUE]

\* bcrypt.compare(password, passwordHash): the password hashed with the salt
\* of the stored hash is the stored hash.
BcryptCompare(password, passwordHash) ==
  BcryptHash(password, passwordHash.salt) = passwordHash

\* jwt.sign({ userId, email }, secretKey, { expiresIn: "1h" })
JwtSign(user) == [userId |-> user.id, email |-> user.email, expiresIn |-> "1h"]

AuthResponse(status, message, token) == [status |-> status, message |-> message, token |-> token]

\* The promise of an awaited library call is fulfilled, or it is rejected:
\* the database cannot be reached, the library fails.
Outcomes == {"fulfilled", "rejected"}
\* What a rejected promise throws into the try block: the failure of a
\* library, the refusal of the unique index on email, the refusal by bcrypt
\* of an argument that is not a string.
Failure == "failure"
E11000 == "E11000 duplicate key error"
IllegalArguments == "Illegal arguments"

\* A request is received on slot r: the slot forgets the earlier request.
AuthArrive(r, route, body) ==
  /\ apc[r] \in {"idle", "done"}
  /\ areq' = [areq EXCEPT ![r] = [body EXCEPT !.route = route]]
  /\ apc' = [apc EXCEPT ![r] = "start"]
  /\ afound' = [afound EXCEPT ![r] = NoUser]
  /\ ahash' = [ahash EXCEPT ![r] = NoHash]
  /\ aerror' = [aerror EXCEPT ![r] = NoError]
  /\ aresp' = [aresp EXCEPT ![r] = <<>>]
  /\ UNCHANGED <<users, coreVars>>

\* POST /auth/signup up to its first await: the basic validation.
Signup(r) ==
  /\ apc[r] = "start" /\ areq[r].route = "signup"
  /\ IF Missing(areq[r].hasEmail, areq[r].email) \/ Missing(areq[r].hasPassword, areq[r].password)
     THEN /\ aresp' = [aresp EXCEPT ![r] =
                 Append(@, AuthResponse(400, "Email and password are required.", NoToken))]
          /\ apc' = [apc EXCEPT ![r] = "done"]
     ELSE IF TooShort(areq[r].password)
     THEN /\ aresp' = [aresp EXCEPT ![r] =
                 Append(@, AuthResponse(400, "Password must be at least 6 characters long.",
                                        NoToken))]
          /\ apc' = [apc EXCEPT ![r] = "done"]
     ELSE /\ apc' = [apc EXCEPT ![r] = "awaitFind"]
          /\ UNCHANGED aresp
  /\ UNCHANGED <<users, areq, afound, ahash, aerror, coreVars>>

\* User.findOne (lines 67 and 93) settles: the collection is read at this
\* step; the handler resumes a turn later, with the user that was read or in
\* its catch.
FindOneSettles(r, outcome) ==
  /\ apc[r] = "awaitFind"
  /\ IF outcome = "rejected"
     THEN /\ aerror' = [aerror EXCEPT ![r] = Failure]
          /\ apc' = [apc EXCEPT ![r] = "rejected"]
          /\ UNCHANGED afound
     ELSE /\ afound' = [afound EXCEPT ![r] = FindOne(users, areq[r].email)]
          /\ apc' = [apc EXCEPT ![r] = "found"]
          /\ UNCHANGED aerror
  /\ UNCHANGED <<users, areq, ahash, aresp, coreVars>>

\* The signup handler resumes after User.findOne.
SignupFound(r) ==
  /\ apc[r] = "found" /\ areq[r].route = "signup"
  /\ IF afound[r] # NoUser
     THEN /\ aresp' = [aresp EXCEPT ![r] =
                 Append(@, AuthResponse(409, "Email already in use.", NoToken))]
          /\ apc' = [apc EXCEPT ![r] = "done"]
     ELSE /\ apc' = [apc EXCEPT ![r] = "awaitSalt"]
          /\ UNCHANGED aresp
  /\ UNCHANGED <<users, areq, afound, ahash, aerror, coreVars>>

\* bcrypt.genSalt settles.
SignupSalted(r, salt, outcome) ==
  /\ apc[r] = "awaitSalt"
  /\ IF outcome = "rejected"
     THEN /\ aerror' = [aerror EXCEPT ![r] = Failure]
          /\ apc' = [apc EXCEPT ![r] = "rejected"]
          /\ UNCHANGED ahash
     ELSE /\ ahash' = [ahash EXCEPT ![r] = [NoHash EXCEPT !.salt = salt]]
          /\ apc' = [apc EXCEPT ![r] = "awaitHash"]
          /\ UNCHANGED aerror
  /\ UNCHANGED <<users, areq, afound, aresp, coreVars>>

\* bcrypt.hash settles; the new user is made and its save is issued.
SignupHashed(r, outcome) ==
  /\ apc[r] = "awaitHash"
  /\ IF outcome = "rejected"
     THEN /\ aerror' = [aerror EXCEPT ![r] = Failure]
          /\ apc' = [apc EXCEPT ![r] = "rejected"]
          /\ UNCHANGED ahash
     ELSE /\ ahash' = [ahash EXCEPT ![r] = BcryptHash(areq[r].password, @.salt)]
          /\ apc' = [apc EXCEPT ![r] = "awaitSave"]
          /\ UNCHANGED aerror
  /\ UNCHANGED <<users, areq, afound, aresp, coreVars>>

\* newUser.save() settles: the document is inserted at this step, unless the
\* database fails or the unique index refuses it; the handler resumes a turn
\* later.
SaveSettles(r, outcome) ==
  /\ apc[r] = "awaitSave"
  /\ IF outcome = "rejected"
     THEN /\ aerror' = [aerror EXCEPT ![r] = Failure]
          /\ apc' = [apc EXCEPT ![r] = "rejected"]
          /\ UNCHANGED users
     ELSE IF DuplicateKey(users, areq[r].email)
     THEN /\ aerror' = [aerror EXCEPT ![r] = E11000]
          /\ apc' = [apc EXCEPT ![r] = "rejected"]
          /\ UNCHANGED users
     ELSE /\ users' = users \cup {NewUser(users, areq[r].email, ahash[r])}
          /\ apc' = [apc EXCEPT ![r] = "saved"]
          /\ UNCHANGED aerror
  /\ UNCHANGED <<areq, afound, ahash, aresp, coreVars>>

\* The signup handler resumes after newUser.save().
SignupSaved(r) ==
  /\ apc[r] = "saved"
  /\ aresp' = [aresp EXCEPT ![r] =
        Append(@, AuthResponse(201, "User created successfully.", NoToken))]
  /\ apc' = [apc EXCEPT ![r] = "done"]
  /\ UNCHANGED <<users, areq, afound, ahash, aerror, coreVars>>

\* The catch of the signup handler (lines 81-84).
SignupCatch(r) ==
  /\ apc[r] = "rejected" /\ areq[r].route = "signup"
  /\ aresp' = [aresp EXCEPT ![r] =
        Append(@, AuthResponse(500, "Server error during signup.", NoToken))]
  /\ apc' = [apc EXCEPT ![r] = "done"]
  /\ UNCHANGED <<users, areq, afound, ahash, aerror, coreVars>>

\* POST /auth/login up to its first await.
Login(r) ==
  /\ apc[r] = "start" /\ areq[r].route = "login"
  /\ apc' = [apc EXCEPT ![r] = "awaitFind"]
  /\ UNCHANGED <<users, areq, afound, ahash, aerror, aresp, coreVars>>

\* The login handler resumes after User.findOne.
LoginFound(r) ==
  /\ apc[r] = "found" /\ areq[r].route = "login"
  /\ IF afound[r] = NoUser
     THEN /\ aresp' = [aresp EXCEPT ![r] =
                 Append(@, AuthResponse(401, "Invalid credentials.", NoToken))]
          /\ apc' = [apc EXCEPT ![r] = "done"]
     ELSE /\ apc' = [apc EXCEPT ![r] = "awaitCompare"]
          /\ UNCHANGED aresp
  /\ UNCHANGED <<users, areq, afound, ahash, aerror, coreVars>>

\* bcrypt.compare settles and the login handler resumes: the promise is
\* rejected when the library fails and when no password was given (the
\* argument is not a string); otherwise the token is signed on a match.
LoginCompared(r, outcome) ==
  /\ apc[r] = "awaitCompare"
  /\ IF outcome = "rejected" \/ ~areq[r].hasPassword
     THEN /\ aerror' = [aerror EXCEPT ![r] =
                 IF areq[r].hasPassword THEN Failure ELSE IllegalArguments]
          /\ apc' = [apc EXCEPT ![r] = "rejected"]
          /\ UNCHANGED aresp
     ELSE /\ aresp' = [aresp EXCEPT ![r] =
                 Append(@, IF ~BcryptCompare(areq[r].password, afound[r].passwordHash)
                           THEN AuthResponse(401, "Invalid credentials.", NoToken)
                           ELSE AuthResponse(200, "Login successful.", JwtSign(afound[r])))]
          /\ apc' = [apc EXCEPT ![r] = "done"]
          /\ UNCHANGED aerror
  /\ UNCHANGED <<users, areq, afound, ahash, coreVars>>

\* The catch of the login handler (lines 111-114).
LoginCatch(r) ==
  /\ apc[r] = "rejected" /\ areq[r].route = "login"
  /\ aresp' = [aresp EXCEPT ![r] =
        Append(@, AuthResponse(500, "Server error during login.", NoToken))]
  /\ apc' = [apc EXCEPT ![r] = "done"]
  /\ UNCHANGED <<users, areq, afound, ahash, aerror, coreVars>>

\* The bodies of the /auth requests: one address with a password of five
\* characters and two of six, the same address in capitals and another
\* address with one password, no address or an empty one, no password or an
\* empty one.
Emails == {<<"t", "@", "c">>, <<"T", "@", "c">>, <<"m", "@", "c">>}
Short5 == <<"s", "s", "s", "s", "s">>
LongA == <<"s", "s", "s", "s", "s", "s">>
LongB == <<"t", "t", "t", "t", "t", "t">>
Passwords == {Short5, LongA, LongB}
Bodies ==
  {[route |-> "", email |-> <<"t", "@", "c">>, password |-> p, hasEmail |-> TRUE,
    hasPassword |-> TRUE] : p \in Passwords}
  \cup {[route |-> "", email |-> e, password |-> LongA, hasEmail |-> TRUE,
         hasPassword |-> TRUE] : e \in Emails}
  \cup {[route |-> "", email |-> <<>>, password |-> LongA, hasEmail |-> he,
         hasPassword |-> TRUE] : he \in BOOLEAN}
  \cup {[route |-> "", email |-> <<"t", "@", "c">>, password |-> <<>>, hasEmail |-> TRUE,
         hasPassword |-> hp] : hp \in BOOLEAN}
Salts == {"salt1", "salt2"}

NextAuth ==
  \/ \E r \in Reqs, body \in Bodies : AuthArrive(r, "signup", body)
  \/ \E r \in Reqs, body \in Bodies : AuthArrive(r, "login", body)
  \/ \E r \in Reqs : Signup(r)
  \/ \E r \in Reqs, outcome \in Outcomes : FindOneSettles(r, outcome)
  \/ \E r \in Reqs : SignupFound(r)
  \/ \E r \in Reqs, salt \in Salts, outcome \in Outcomes : SignupSalted(r, salt, outcome)
  \/ \E r \in Reqs, outcome \in Outcomes : SignupHashed(r, outcome)
  \/ \E r \in Reqs, outcome \in Outcomes : SaveSettles(r, outcome)
  \/ \E r \in Reqs : SignupSaved(r)
  \/ \E r \in Reqs : SignupCatch(r)
  \/ \E r \in Reqs : Login(r)
  \/ \E r \in Reqs : LoginFound(r)
  \/ \E r \in Reqs, outcome \in Outcomes : LoginCompared(r, outcome)
  \/ \E r \in Reqs : LoginCatch(r)

SpecAuth == Init /\ [][NextAuth]_vars

(***************************************************************************)
(* Properties of the cache path, checked under Spec                        *)
(***************************************************************************)
TCS == <<"T", "C", "S">>
Settled(r) == call[r].state \in {"returned", "threw"}
\* The earlier invocations whose record was less than 5 minutes old when r
\* made its cache check.
FreshBefore(r) == {h \in call[r].before : call[r].checkAt - h.storedAt < 300000}
\* r found an entry that was 5 minutes old or older.
SawStale(r) == call[r].seenAt >= 0 /\ call[r].checkAt - call[r].seenAt >= 300000

\* C1 as stated: a call that starts after an earlier call for the same symbol
\* returned a record, and less than 5 minutes after that record was stored,
\* returns that same record and issues no model call, whatever else is in flight.
C1_SecondCallIdentical ==
  \A r \in Reqs : \A h \in FreshBefore(r) :
    /\ call[r].calls = 0
    /\ call[r].state = "returned"
    /\ call[r].data = h.data

\* C1 amended: such a call issues no model call and returns the entry the cache
\* holds when it starts; that is the earlier call's record unless a request for
\* the symbol that was already in flight has written the cache since the
\* earlier call returned.
C1_SecondCallHitsCache ==
  \A r \in Reqs : \A h \in FreshBefore(r) :
    /\ call[r].calls = 0
    /\ call[r].state = "returned"
    /\ call[r].storedAt = call[r].seenAt
    /\ ~h.overwritten => call[r].data = h.data

C1_Witness ==
  \E r \in Reqs : \E h \in FreshBefore(r) :
    /\ ~h.overwritten
    /\ call[r].hit
    /\ call[r].checkAt = h.storedAt + 299999
    /\ call[r].data = h.data

\* C2 as stated: a call that finds an entry 5 minutes old or older issues a
\* model call and, once it has finished, the entry's storedAt is later than the
\* one it found.
C2_StoredAtAdvances ==
  \A r \in Reqs : SawStale(r) /\ Settled(r) =>
    /\ call[r].calls = 1
    /\ stockCache[call[r].stockSymbol].timestamp > call[r].seenAt

\* C2 amended: such a call issues a model call; when the retrieval succeeds the
\* entry's storedAt is later than the one it found, and when it fails the call
\* has written nothing.
C2_StoredAtAdvancesOnSuccess ==
  \A r \in Reqs : SawStale(r) =>
    /\ call[r].calls = 1
    /\ ~call[r].hit
    /\ call[r].state = "returned" =>
         /\ call[r].storedAt > call[r].seenAt
         /\ stockCache[call[r].stockSymbol].timestamp > call[r].seenAt
    /\ call[r].state = "threw" => call[r].writes = 0

C2_Witness ==
  \E r \in Reqs :
    /\ SawStale(r)
    /\ call[r].state = "returned"
    /\ call[r].calls = 1
    /\ stockCache[call[r].stockSymbol].timestamp = call[r].seenAt + 300000

\* C3: the cache check returns the cached record exactly when an entry exists
\* and is strictly less than 300000 ms old; otherwise the entry counts as absent
\* (the model is called); the check leaves the cache as it was.
C3_FreshnessBoundary ==
  [][\A r \in Reqs : pc[r] = "route" /\ pc'[r] # "route" =>
       LET k == call'[r].stockSymbol
           young == k \in DOMAIN stockCache /\ now - stockCache[k].timestamp < 300000
       IN /\ k = TCS
          /\ call'[r].hit <=> young
          /\ young => call'[r].state = "returned" /\ call'[r].data = stockCache[k].data
                      /\ call'[r].calls = 0
          /\ ~young => call'[r].state = "pending" /\ call'[r].calls = 1
          /\ stockCache' = stockCache]_vars

C3_Witness ==
  \E r \in Reqs :
    /\ call[r].seenAt >= 0
    /\ call[r].checkAt - call[r].seenAt = 300000
    /\ ~call[r].hit
    /\ call[r].state = "pending"
    /\ stockCache[TCS].timestamp = call[r].seenAt

\* C4: a getStockMetrics call that ends with an error writes nothing: the step
\* in which it fails leaves the whole cache as it was.
C4_FailureWritesNothing ==
  [][\A r \in Reqs : call[r].state = "pending" /\ call'[r].state = "threw" =>
       /\ stockCache' = stockCache
       /\ call'[r].writes = 0]_vars

C4_Witness ==
  \E r \in Reqs :
    /\ call[r].state = "threw"
    /\ reply[r] = Replied(Prose)
    /\ call[r].seenAt >= 0
    /\ stockCache[TCS].timestamp = call[r].seenAt
    /\ now - call[r].seenAt >= 300000

\* C9: a request without a token is answered 401 and one whose token fails
\* verification 403; such a request gets that one response and never reads or
\* writes the cache nor calls the model; the core runs only for verified tokens.
C9_AuthenticationGate ==
  \A r \in Reqs :
    /\ Len(responses[r]) <= 1
    /\ call[r].reads > 0 => req[r].header = BearerSigned
    /\ pc[r] \notin {"idle", "auth"} /\ req[r].header # BearerSigned =>
         /\ pc[r] = "done"
         /\ Len(responses[r]) = 1
         /\ responses[r][1].status = IF req[r].header \in {NoHeader, Str(Bearer)} THEN 401 ELSE 403
         /\ call[r].reads = 0 /\ call[r].writes = 0 /\ call[r].calls = 0
         /\ analysisCalls[r] = 0

C9_Witness ==
  \E r, q \in Reqs :
    /\ req[r].route = "analyze" /\ req[r].header = BearerForged
    /\ pc[r] = "done" /\ responses[r][1].status = 403
    /\ req[q].route = "stock" /\ req[q].header = Str(Bearer)
    /\ pc[q] = "done" /\ responses[q][1].status = 401

\* A request with an empty authorization header was answered 403 and one with
\* no such header 401.
C9_EmptyHeaderReached ==
  \E r, q \in Reqs :
    /\ req[r].header = Str(<<>>) /\ pc[r] = "done"
    /\ responses[r] = <<Response(403, "error", "Invalid token.")>>
    /\ req[q].header = NoHeader /\ pc[q] = "done"
    /\ responses[q] = <<Response(401, "error", "Access denied. No token provided.")>>

\* C10: one getStockMetrics invocation issues at most one model call, none on a
\* fresh hit, and each failure reaches the caller as one error whose message
\* names the symbol: the handler is waiting to resume with it, or has resumed
\* and answered 500 once with that message.
C10_NoRetries ==
  \A r \in Reqs :
    /\ call[r].calls <= 1
    /\ call[r].hit => call[r].calls = 0
    /\ call[r].state = "threw" =>
         /\ call[r].calls = 1
         /\ call[r].errors = 1
         /\ call[r].message.stockSymbol = TCS
         /\ pc[r] \in {"resume", "done"}
         /\ pc[r] = "resume" => responses[r] = <<>>
         /\ pc[r] = "done" =>
              /\ Len(responses[r]) = 1 /\ responses[r][1].status = 500
              /\ req[r].route = "stock" => responses[r][1].value.stockSymbol = TCS
              /\ req[r].route = "analyze" => responses[r][1].value.inner.stockSymbol = TCS

C10_Witness ==
  \E r \in Reqs :
    /\ call[r].state = "threw"
    /\ reply[r] = Rejected
    /\ call[r].calls = 1
    /\ req[r].route = "stock"
    /\ pc[r] = "done" /\ responses[r] = <<Response(500, "error", RetrievalError(TCS))>>

(***************************************************************************)
(* Properties of parsing and normalisation, checked under SpecRetrieve     *)
(***************************************************************************)
\* The documented placeholder ranges.
DocumentedRange ==
  [currentPrice |-> <<Num(5000), Num(15000)>>, dayHigh |-> <<Num(6000), Num(16000)>>,
   dayLow |-> <<Num(4000), Num(14000)>>, peRatio |-> <<Num(1000), Num(4000)>>,
   roe |-> <<Num(10), Num(60)>>, debtToEquity |-> <<Num(20), Num(120)>>,
   profitMargins |-> <<Num(10), Num(60)>>, revenueGrowth |-> <<Num(5), Num(35)>>]
\* v <= w, as JavaScript compares two numbers that are finite and not
\* negative: digit by digit, once both are written down to the same power of
\* ten.
AtMostAt(a, b, x, n) == ~Less(Aligned(b, x, n), Aligned(a, x, n))
AtMost(v, w) ==
  AtMostAt(NumberDigits(v), NumberDigits(w), Min(NumberDigits(v).x, NumberDigits(w).x),
           1 + Max(Len(NumberDigits(v).ds) + NumberDigits(v).x,
                   Len(NumberDigits(w).ds) + NumberDigits(w).x)
             - Min(NumberDigits(v).x, NumberDigits(w).x))
IsFiniteNumber(x) == x.ty = "number" /\ "inf" \notin DOMAIN x
IsNegative(x) == IF "n" \in DOMAIN x THEN x.n < 0 ELSE x.sign < 0
InRange(f, x) ==
  /\ IsFiniteNumber(x) /\ ~IsNegative(x)
  /\ AtMost(DocumentedRange[f][1], x) /\ AtMost(x, DocumentedRange[f][2])

\* C5 as stated: a reply whose parsed value is a number, a string, a boolean,
\* null or an array makes getStockMetrics throw, and nothing is cached.
C5_NonObjectRejected ==
  \A t \in NonObjectTexts : reply[1] = Replied(t) =>
    /\ call[1].state = "threw"
    /\ DOMAIN stockCache = {}
    /\ pc[1] = "done" => responses[1][1].status = 500

\* C6 as stated: from prose, one well-formed object, then any further text, the
\* first {...} span is extracted and exactly that object is parsed.
C6_FirstObjectExtracted ==
  \A pre \in Prefixes, o \in EmbeddedObjects, suf \in Suffixes :
    reply[1] = Replied(pre \o o \o suf) =>
      /\ call[1].state = "returned"
      /\ o = AcmeObject =>
           /\ call[1].data.stockName = Str(Acme)
           /\ call[1].data.currentPrice = Num(4200)
      /\ o = <<"{", "}">> =>
           /\ call[1].data.stockName = Str(TCS)
           /\ InRange("currentPrice", call[1].data.currentPrice)

IsConcreteRecord(d) ==
  /\ d.stockName.ty = "string"
  /\ d.symbol.ty = "string"
  /\ \A f \in NumFields : IsFiniteNumber(d[f])

\* C7 as stated: in every record returned or cached, stockName and symbol are
\* strings and the eight numeric fields are finite numbers.
C7_RecordFieldsConcrete ==
  /\ \A r \in Reqs : call[r].state = "returned" => IsConcreteRecord(call[r].data)
  /\ \A k \in DOMAIN stockCache : IsConcreteRecord(stockCache[k].data)

\* The numbers the numeric strings among the field values spell.
Spelled ==
  {<<Str(<<"4", "2">>), Num(4200)>>, <<Str(<<"0">>), Num(0)>>,
   <<Str(<<"4", ".", "5">>), Num(450)>>, <<Str(<<"-", "1">>), Num(-100)>>,
   <<Str(<<" ", "4", "2", " ">>), Num(4200)>>, <<Str(<<"1", "e", "2">>), Num(10000)>>,
   <<Str(<<"0", "x", "1", "0">>), Num(1600)>>, <<Str(<<" ">>), Num(0)>>,
   <<Str(<<"I", "n", "f", "i", "n", "i", "t", "y">>), Infinity(1)>>}

\* x is v, or the number v spells.
SameAsSource(x, v) ==
  \/ x = v
  \/ <<v, x>> \in Spelled
  \/ v = Bool(TRUE) /\ x = Num(100)

\* C8 as stated: a numeric field equals its source value when that is present
\* and not 0, and is a placeholder in the documented range when it is absent,
\* null or 0; a source 0 is never returned.
C8_SourceOrPlaceholder ==
  \A f \in NumFields, v \in FieldValues :
    reply[1] = Replied(OneMember(f, v)) /\ call[1].state = "returned" =>
      /\ v \in {Null, Num(0)} => InRange(f, call[1].data[f])
      /\ v \notin {Null, Num(0)} => SameAsSource(call[1].data[f], v)
      /\ \A g \in NumFields \ {f} : InRange(g, call[1].data[g])

(***************************************************************************)
(* Properties of GET /analyze/:symbol, checked under Spec                  *)
(***************************************************************************)
IsAnalyze(r) == req[r].route = "analyze"
\* The entry r found at its cache check was less than 5 minutes old.
FoundFresh(r) == call[r].seenAt >= 0 /\ call[r].checkAt - call[r].seenAt < 300000
\* The model calls made on behalf of r: those of getStockMetrics and the
\* recommendation call of the handler.
ModelCalls(r) == call[r].calls + analysisCalls[r]

C11_FailureReached ==
  \E r \in Reqs :
    IsAnalyze(r) /\ call[r].state = "threw" /\ analysisCalls[r] = 0 /\ responses[r] # <<>>

\* C12: whenever the recommendation call gave a reply text, the /analyze
\* request is answered once, with success, and geminiResponse is that text as
\* it was given: whatever its first line, whatever its second line, empty or
\* not.
C12_ReplyPassedThrough ==
  \A r \in Reqs : IsAnalyze(r) /\ analysisReply[r].kind = "text" =>
    /\ pc[r] = "done"
    /\ Len(responses[r]) = 1
    /\ responses[r][1].status = 200
    /\ responses[r][1].kind = "geminiResponse"
    /\ responses[r][1].value = analysisReply[r].text

\* One /analyze request was answered with the empty reply text and another
\* with a one-line reply that has no score.
C12_Witness ==
  \E r, q \in Reqs :
    /\ IsAnalyze(r) /\ analysisReply[r] = Replied(<<>>)
    /\ responses[r] = <<Response(200, "geminiResponse", <<>>)>>
    /\ IsAnalyze(q) /\ analysisReply[q] = Replied(Prose)
    /\ responses[q] = <<Response(200, "geminiResponse", Prose)>>

(***************************************************************************)
(* Properties of GET /stock/:symbol and of the map, checked under SpecKeys *)
(***************************************************************************)
IsStock(r) == req[r].route = "stock"
\* The cache key of a request: its symbol parameter in capitals.
SS == <<"S", "S">>
KeyOf(r) == IF req[r].param = <<"t", "c", "s">> THEN TCS ELSE SS

\* C13: every authenticated GET /stock request gets at most one response, and
\* once its retrieval has completed and its handler has resumed it has exactly
\* one, having had none before: success carrying the
\* record getStockMetrics returned for the symbol in capitals, a record made
\* for that key and no other, or 500 carrying the retrieval error's message.
C13_OneResponsePerStockRequest ==
  \A r \in Reqs : IsStock(r) =>
    /\ Len(responses[r]) <= 1
    /\ Settled(r) =>
         /\ pc[r] \in {"resume", "done"}
         /\ call[r].stockSymbol = KeyOf(r)
    /\ pc[r] = "done" => Settled(r) /\ Len(responses[r]) = 1
    /\ pc[r] # "done" => responses[r] = <<>>
    /\ call[r].state = "returned" =>
         /\ pc[r] = "done" => responses[r][1] = Response(200, "stockData", call[r].data)
         /\ call[r].data.stockName = Str(KeyOf(r))
         /\ call[r].hit => KeyOf(r) \in DOMAIN stockCache
    /\ call[r].state = "threw" /\ pc[r] = "done" =>
         /\ responses[r][1].status = 500
         /\ responses[r][1].kind = "error"
         /\ responses[r][1].value = call[r].message
         /\ responses[r][1].value.stockSymbol = KeyOf(r)

\* A request for one symbol was served from the cache while the map also held
\* the other symbol's record, and a request for the other symbol got 500.
C13_Witness ==
  \E r, q \in Reqs :
    /\ IsStock(r) /\ call[r].state = "returned" /\ call[r].hit /\ req[r].param = <<SharpS>>
    /\ DOMAIN stockCache = {TCS, SS}
    /\ responses[r] = <<Response(200, "stockData", stockCache[SS].data)>>
    /\ IsStock(q) /\ call[q].state = "threw" /\ KeyOf(q) = TCS
    /\ Len(responses[q]) = 1 /\ responses[q][1].status = 500

\* A request for /stock/Ss stored a record and a request for the symbol
\* written with a sharp s was answered with that record from the cache.
C13_SharedKeyReached ==
  \E r, q \in Reqs :
    /\ IsStock(q) /\ req[q].param = <<"S", "s">> /\ call[q].state = "returned" /\ ~call[q].hit
    /\ IsStock(r) /\ req[r].param = <<SharpS>> /\ call[r].state = "returned" /\ call[r].hit
    /\ call[r].data = call[q].data /\ call[r].data.stockName = Str(SS)
    /\ responses[r] = <<Response(200, "stockData", call[q].data)>>

\* C14: in every record getStockMetrics has returned and in every cache entry,
\* the symbol field is the caller's ticker in capitals, which is the cache key,
\* whatever symbol the model reply carries.
C14_SymbolIsCacheKey ==
  /\ \A r \in Reqs :
       call[r].state = "returned" => call[r].data.symbol = Str(call[r].stockSymbol)
  /\ \A k \in DOMAIN stockCache : stockCache[k].data.symbol = Str(k)

\* r and q are two misses for the same symbol: each found the entry missing or
\* stale at its own cache check.
BothMissed(r, q) ==
  /\ r # q
  /\ call[r].state \in {"pending", "returned"} /\ ~call[r].hit
  /\ call[q].state \in {"pending", "returned"} /\ ~call[q].hit
  /\ call[r].stockSymbol = call[q].stockSymbol

\* C15: there is no single flight and the last writer wins. When two requests
\* for one symbol both missed, each has issued its own model call; and in the
\* step in which one of them succeeds, the cache entry becomes that request's
\* record and storedAt, whether or not the other has already written and
\* whichever started first, while the other keeps the record it returned and
\* the response it sent.
C15_LastWriterWins ==
  [][\A r, q \in Reqs :
       BothMissed(r, q) /\ call[r].state = "pending" /\ call'[r].state = "returned" =>
         /\ call[r].calls = 1 /\ call[q].calls = 1
         /\ call'[r].calls = 1
         /\ stockCache'[call[r].stockSymbol] =
              [data |-> call'[r].data, timestamp |-> call'[r].storedAt]
         /\ call'[q] = call[q]
         /\ responses'[q] = responses[q]
         /\ call[q].state = "returned" /\ IsStock(q) /\ pc[q] = "done" =>
              responses[q] = <<Response(200, "stockData", call[q].data)>>]_vars

\* Two GET /stock requests both found no entry; r made its check first and
\* wrote last: both have succeeded with different records, each was answered
\* with its own, and the cache holds r's.
C15_Witness ==
  \E r, q \in Reqs :
    /\ BothMissed(r, q) /\ IsStock(r) /\ IsStock(q)
    /\ call[r].state = "returned" /\ call[q].state = "returned"
    /\ call[r].seenAt = -1 /\ call[q].seenAt = -1
    /\ call[r].checkAt < call[q].checkAt
    /\ call[q].storedAt <= call[r].storedAt
    /\ call[r].data # call[q].data
    /\ stockCache[TCS] = [data |-> call[r].data, timestamp |-> call[r].storedAt]
    /\ responses[r] = <<Response(200, "stockData", call[r].data)>>
    /\ responses[q] = <<Response(200, "stockData", call[q].data)>>

\* C16: write-through on a miss. In the step in which getStockMetrics returns
\* a record on the miss path, the cache has been written for that symbol with
\* that record and the time of the write, so that at the return the cache
\* maps the symbol to the returned record, the handler not having resumed
\* yet; no miss that returned a record is left without its one write.
C16_WriteThroughOnMiss ==
  [][\A r \in Reqs :
       /\ call[r].state = "pending" /\ call'[r].state = "returned" =>
            /\ ~call'[r].hit
            /\ call[r].writes = 0 /\ call'[r].writes = 1
            /\ call'[r].storedAt = now
            /\ call[r].stockSymbol \in DOMAIN stockCache'
            /\ stockCache'[call[r].stockSymbol].data = call'[r].data
            /\ stockCache'[call[r].stockSymbol].timestamp = now
            /\ pc'[r] = "resume" /\ responses'[r] = <<>>
       /\ call'[r].state = "returned" /\ ~call'[r].hit => call'[r].writes = 1
       /\ call'[r].state = "returned" /\ call'[r].hit => call'[r].writes = 0]_vars

\* A miss on a stale entry has returned a record, and the cache holds that
\* record with the time of its write.
C16_Witness ==
  \E r \in Reqs :
    /\ call[r].state = "returned" /\ ~call[r].hit /\ call[r].writes = 1
    /\ SawStale(r)
    /\ call[r].storedAt = now
    /\ stockCache[TCS] = [data |-> call[r].data, timestamp |-> now]
    /\ responses[r] = <<Response(200, "stockData", call[r].data)>>

\* C17: cache entries are never deleted. In every step the set of keys keeps
\* all it had; an entry appears or changes only in a step in which a pending
\* retrieval for that same key returns, and then holds that retrieval's
\* record; and the storedAt of a key never decreases.
C17_EntriesNeverDeleted ==
  [][/\ DOMAIN stockCache \subseteq DOMAIN stockCache'
     /\ \A k \in DOMAIN stockCache' :
          /\ k \notin DOMAIN stockCache \/ stockCache'[k] # stockCache[k] =>
               \E r \in Reqs :
                 /\ call[r].state = "pending" /\ call[r].stockSymbol = k
                 /\ call'[r].state = "returned"
                 /\ stockCache'[k].data = call'[r].data
          /\ k \in DOMAIN stockCache =>
               stockCache'[k].timestamp >= stockCache[k].timestamp]_vars

\* The map holds both symbols, and the entry of one has been overwritten, five
\* minutes after it was stored, by a retrieval for that symbol, while the
\* other symbol's entry is the one stored first.
C17_Witness ==
  \E r \in Reqs :
    /\ DOMAIN stockCache = {TCS, SS}
    /\ call[r].state = "returned" /\ ~call[r].hit /\ SawStale(r)
    /\ call[r].stockSymbol = TCS
    /\ stockCache[TCS].timestamp = call[r].storedAt
    /\ stockCache[TCS].timestamp > call[r].seenAt
    /\ stockCache[SS].timestamp = 0

(***************************************************************************)
(* Properties of signup and login, checked under SpecAuth                  *)
(***************************************************************************)
IsSignup(r) == areq[r].route = "signup"
IsLogin(r) == areq[r].route = "login"
\* The step sends r a response.
Answers(r) == Len(aresp'[r]) > Len(aresp[r])
\* The users stored under the address of r's request.
StoredFor(r) == {u \in users : u.email = ToLowerCase(areq[r].email)}
\* r's body fails the basic validation of signup.
Invalid(r) ==
  \/ ~areq[r].hasEmail \/ areq[r].email = <<>>
  \/ ~areq[r].hasPassword \/ areq[r].password = <<>>
  \/ Len(areq[r].password) < 6
\* r is a signup whose own save has stored its user.
Created(r) ==
  /\ IsSignup(r)
  /\ apc[r] = "saved" \/ (Len(aresp[r]) = 1 /\ aresp[r][1].status = 201)

\* C18 as stated: every signup for an address that is already stored, by
\* another request, is answered 409 and leaves the user store unchanged.
C18_StoredEmailAnswered409 ==
  [][\A r \in Reqs :
       IsSignup(r) /\ Answers(r) /\ ~Created(r) /\ StoredFor(r) # {} =>
         aresp'[r][1].status = 409 /\ users' = users]_vars

\* C18: the user store never loses a user and never holds two users with one
\* address; it changes only when the save of a valid signup stores the one
\* user of an address that had none, and no two requests at a time have
\* stored the user of one address.  A signup is answered once, by a step that
\* leaves the store as it is: 400 when the body fails the validation; 409
\* when the body is valid and the lookup found the address, which is then
\* stored; 201 only when its own save has stored its user; and otherwise 500,
\* which is the answer whenever the lookup, the salt, the hash or the save
\* failed, and whenever the unique index refused the save, the address being
\* stored by then.
C18_SignupUniqueness ==
  [][/\ users \subseteq users'
     /\ \A u, v \in users' : u.email = v.email => u = v
     /\ \A r, q \in Reqs :
          Created(r) /\ Created(q) /\ ToLowerCase(areq[r].email) = ToLowerCase(areq[q].email)
            => r = q
     /\ users' # users =>
          \E r \in Reqs :
            /\ IsSignup(r) /\ ~Invalid(r) /\ ~Created(r) /\ Created(r)'
            /\ StoredFor(r) = {}
            /\ \E u \in users' :
                 /\ users' = users \cup {u}
                 /\ u.email = ToLowerCase(areq[r].email)
                 /\ u.passwordHash.password = areq[r].password
     /\ \A r \in Reqs : ~Created(r) /\ Created(r)' => users' # users
     /\ \A r \in Reqs :
          IsSignup(r) /\ Answers(r) =>
            /\ Len(aresp'[r]) = 1
            /\ users' = users
            /\ aresp'[r][1].status \in {400, 409, 201, 500}
            /\ aresp'[r][1].status = 400 <=> Invalid(r)
            /\ aresp'[r][1].status = 409 <=>
                 ~Invalid(r) /\ aerror[r] = NoError /\ afound[r] # NoUser
            /\ aresp'[r][1].status = 409 => afound[r] \in StoredFor(r)
            /\ aresp'[r][1].status = 201 <=>
                 ~Invalid(r) /\ aerror[r] = NoError /\ afound[r] = NoUser
            /\ aresp'[r][1].status = 201 =>
                 /\ Created(r)
                 /\ \E u \in StoredFor(r) : u.passwordHash.password = areq[r].password
            /\ aresp'[r][1].status = 500 <=> ~Invalid(r) /\ aerror[r] # NoError
            /\ aerror[r] = E11000 => StoredFor(r) # {}]_vars

\* Two signups for one address, written in different letter cases, ran
\* together: one was answered 201, the other was refused by the unique index
\* and answered 500, and the store holds one user for the address.
C18_Witness ==
  \E r, q \in Reqs :
    /\ IsSignup(r) /\ areq[r].email = <<"t", "@", "c">>
    /\ IsSignup(q) /\ areq[q].email = <<"T", "@", "c">>
    /\ Len(aresp[r]) = 1 /\ aresp[r][1].status = 201
    /\ Len(aresp[q]) = 1 /\ aresp[q][1].status = 500 /\ aerror[q] = E11000
    /\ Cardinality({u \in users : u.email = <<"t", "@", "c">>}) = 1

\* A signup for a stored address was answered 409, and one with a password of
\* five characters 400.
C18_RefusalsReached ==
  \E r, q \in Reqs :
    /\ IsSignup(r) /\ Len(aresp[r]) = 1 /\ aresp[r][1].status = 409
    /\ IsSignup(q) /\ Len(aresp[q]) = 1 /\ aresp[q][1].status = 400
    /\ areq[q].password = Short5 /\ users # {}

\* A valid signup whose save failed was answered 500 and its address is not
\* stored, and another has its user stored and is not yet answered.
C18_FailureReached ==
  \E r, q \in Reqs :
    /\ IsSignup(r) /\ ~Invalid(r) /\ aerror[r] = Failure /\ ahash[r].hashed
    /\ Len(aresp[r]) = 1 /\ aresp[r][1].status = 500 /\ StoredFor(r) = {}
    /\ IsSignup(q) /\ apc[q] = "saved" /\ aresp[q] = <<>> /\ StoredFor(q) # {}

\* The stored users with the address of r's request whose hash is the hash of
\* the password r gave.
Matching(r) ==
  {u \in StoredFor(r) : areq[r].hasPassword /\ u.passwordHash.password = areq[r].password}
InvalidCredentials == AuthResponse(401, "Invalid credentials.", NoToken)

\* C19 as stated, the failure of a library left aside: no step of a login
\* changes the user store; a login is answered once; its answer carries a
\* token only when a stored user has the given address and the given password
\* matches that user's hash, and the token is that user's; and a login whose
\* address is unknown or whose password is not the stored user's gets one and
\* the same answer, 401 "Invalid credentials." without a token.
C19_LoginAsStated ==
  [][\A r \in Reqs :
       /\ IsLogin(r) /\ apc'[r] # apc[r] => users' = users
       /\ IsLogin(r) /\ Answers(r) =>
            /\ Len(aresp'[r]) = 1
            /\ aresp'[r][1].token # NoToken =>
                 /\ aresp'[r][1].status = 200
                 /\ \E u \in Matching(r) :
                      /\ aresp'[r][1].token.userId = u.id
                      /\ aresp'[r][1].token.email = u.email
            /\ aresp'[r][1].status = 200 => aresp'[r][1].token # NoToken
            /\ aerror[r] # Failure /\ Matching(r) = {} =>
                 aresp'[r][1] = InvalidCredentials]_vars

\* A login without a password for a stored address was answered 500 "Server
\* error during login.", and a login for an address nobody has 401.
C19_NoPasswordReached ==
  \E r, q \in Reqs :
    /\ IsLogin(r) /\ StoredFor(r) # {} /\ ~areq[r].hasPassword
    /\ aerror[r] = IllegalArguments
    /\ aresp[r] = <<AuthResponse(500, "Server error during login.", NoToken)>>
    /\ IsLogin(q) /\ StoredFor(q) = {} /\ aresp[q] = <<InvalidCredentials>>

\* A login was answered with a token, for an address written in capitals.
C19_TokenReached ==
  \E r \in Reqs :
    /\ IsLogin(r) /\ areq[r].email = <<"T", "@", "c">> /\ Len(aresp[r]) = 1
    /\ aresp[r][1].status = 200 /\ aresp[r][1].token.email = <<"t", "@", "c">>
====
